---- MODULE Spec2Model ----
(***************************************************************************)
(* Policy-manager coordination layer of maro.rl.                           *)
(*                                                                         *)
(*   maro/rl/policy/policy_manager.py    history-based managers            *)
(*        (AbsPolicyManager, LocalPolicyManager, ...)                      *)
(*   maro/rl/learning/policy_manager.py  counter-based managers, the       *)
(*        serving loop, policy hosts and gradient workers                  *)
(*                                                                         *)
(* One group of variables per component; every specification runs one      *)
(* component and leaves the variables of the others at their idle values.  *)
(* A policy state (an opaque blob in the code) is modelled as the number   *)
(* of learning steps that produced it, so that two states are equal        *)
(* exactly when the same number of learn calls were applied.               *)
(***************************************************************************)
EXTENDS Integers, Sequences, FiniteSets, TLC

\* ---------------------------------------------------------------- bounds
MaxCalls == 3          \* update() calls issued to a manager in one run
MaxActors == 2         \* largest num_actors the serving loop is run with
MaxLagBound == 1       \* largest max_lag the serving loop is run with
MaxSamples == 3        \* SAMPLE_DONE messages sent in one run
MaxExits == 2          \* exit() calls issued in one run
MaxHosts == 2          \* largest num_hosts the multi-node manager is run with
MaxTrainers == 2       \* largest num_trainers the trainer-based managers are run with
MaxSlots == 5          \* largest num_trainers the allocator is called with
MaxAllocPolicies == 3  \* most policies the allocating manager is given
MaxLoad == 3           \* largest experience count recorded for one policy
MaxGradPool == 2       \* largest pool of gradient workers (num_grad_workers)
MaxGradMsgs == 3       \* most messages sent to one gradient worker on its own

\* ------------------------------------------------------------- constants
PolicyOrder == <<"p1", "p2">>                  \* policy_dict, in insertion order
Policies == {PolicyOrder[i] : i \in 1..Len(PolicyOrder)}
HostedOrder == <<"p1", "p2", "p3">>            \* create_policy_func_dict of the multi-node manager
Hosted == {HostedOrder[i] : i \in 1..Len(HostedOrder)}
HostIds == 0..(MaxHosts - 1)                   \* i of "POLICY_HOST.i"
TrainerIds == 0..(MaxTrainers - 1)             \* i of "TRAINER.i"
NumGradWorkers == 1                            \* num_grad_workers (its default)
GradWorkerIds == 0..(NumGradWorkers - 1)       \* i of "GRAD_WORKER.i"
RecordKinds == {"Trajectory", "LossInfo", "Other"}   \* type of info_list[0]
Triggers == {1, 2}                             \* update_trigger values tried
Warmups == {1, 2}                              \* warmup values tried
ExpSizes == {0, 1}                             \* ExperienceSet.size values tried
GradTasks == {{"p1"}, {"p1", "p2"}}            \* key sets of MsgKey.GRAD_TASK tried
Snapshots == {1, 2}                            \* policy states pushed with a task
None == <<>>                                   \* Python's None; a given value v is <<v>>
num_epochs == 1                                \* PolicyUpdateOptions.num_epochs

VARIABLES
    mgr,              \* which manager class was constructed
    update_option,    \* [policy -> [update_trigger, warmup, reset_memory]]
    update_history,   \* AbsPolicyManager._update_history (policy/)
    new_exp_counter,  \* LocalPolicyManager._new_exp_counter
    memory_size,      \* policy.experience_memory.size, per policy
    policy_state,     \* state of the policy instances the manager owns
    version,          \* SimplePolicyManager._version (learning/)
    calls,            \* number of update() calls made so far
    last,             \* the last update() call: policies named, policies updated, version before
    got               \* the last get_state() call since then: argument and result

VARIABLES
    num_actors,         \* server(): num_actors
    max_lag,            \* server(): max_lag
    num_active_actors,  \* server(): the live-actor counter
    serverPc,           \* "serving" inside the receive loop, "returned" after it
    inbox,              \* per actor, the message it sent that is not handled yet
    held,               \* per actor, the version of the last POLICY_STATE reply (-1: none)
    finished,           \* per actor, whether it has sent DONE
    samples,            \* number of SAMPLE_DONE messages sent so far
    event               \* what the loop did with the last message it handled

VARIABLES
    state_cache,        \* MultiProcess/DistributedPolicyManager._state_cache
    mpPc,               \* where the multi-process manager is: "init", "idle", "send", "recv"
    mpIdx,              \* position of its loop over self._manager_end.items()
    mpToSend,           \* update(): policies of rollout_info not yet sent to
    mpRollout,          \* update(): the rollout_info of the call in progress
    toHost,             \* per policy, the pipe from the manager to its host process
    toMgr,              \* per policy, the pipe from its host process to the manager
    hostPc,             \* per host process: "start", "loop", "stopped", "crashed"
    hostPolicy,         \* per host process, the state of the policy it owns
    exits               \* number of exit() calls made so far

VARIABLES
    num_hosts,          \* DistributedPolicyManager: num_hosts
    policy2host,        \* DistributedPolicyManager._policy2host
    distPc,             \* where the manager is: "init", "idle", "scatter", "gather", "closed"
    distRollout,        \* update(): the rollout_info of the call in progress
    distToSend,         \* update(): destinations the iscatter has not yet sent to
    dones,              \* the reply counter of the gather loop in progress
    msg_dict,           \* update(): the LEARN payload per destination host
    arrivals,           \* update(): the hosts whose LEARN_DONE was taken, in order
    netToHost,          \* per host, the messages sent to it and not yet received
    netToMgr,           \* the replies sent to the manager and not yet received
    nodePc,             \* per policy host node: "loop", "stopped", "crashed"
    policy_dict,        \* per policy host node, the states of the policies it created
    data_parallel,      \* DistributedPolicyManager._data_parallel
    gwPc,               \* per gradient worker: "off", "loop", "stopped", "crashed"
    gwIn,               \* per gradient worker, the messages sent to it and not yet received
    gwReplies,          \* COMPUTE_GRAD_DONE replies sent to the requesters, in order
    gwPolicy,           \* per gradient worker, its policy_dict: the state of each policy created
    gwSent              \* number of messages sent to gradient workers run on their own

VARIABLES
    num_trainers,       \* policy/ MultiProcess/MultiNodePolicyManager: num_trainers
    exp_cache,          \* _exp_cache, by ExperienceSet.size per policy
    num_experiences_by_policy,  \* _num_experiences_by_policy
    trPc,               \* where update()/exit() is: "idle", "send", "recv", "scatter",
                        \* "gather", "error", "closed"
    trIdx,              \* position of the loop over self._manager_end
    trToSend,           \* destinations the iscatter has not yet sent to
    exp_to_send,        \* update(): exp_to_send, by size per policy
    trDones,            \* update(): the TRAIN_DONE counter of the gather loop
    trIn,               \* per trainer, the messages sent to it and not yet received
    trOut,              \* per trainer, its replies the manager has not yet received
    trainerPc,          \* per trainer: "off", "loop", "stopped"
    trainerPolicy,      \* per trainer, the states of the policies it holds
    trExits,            \* number of exit() calls made so far
    dispatched          \* per policy, the experience sent to its trainer so far

VARIABLES
    allocArgs,          \* allocate_strategy: num_trainers and num_experiences_by_policy
    allocation          \* allocate_strategy: what the call returned, or that none was made

VARIABLES
    num_grad_workers,   \* learning/ SimplePolicyManager in data-parallel mode: _num_grad_workers
    policy2workers,     \* _policy2workers: per policy, the list of worker ids
    worker_init,        \* per worker, the policy names of the INIT_POLICIES it was sent
    handed              \* last update(): per policy that learnt remotely, the workers handed to it

mgrVars == <<mgr, update_option, update_history, new_exp_counter, memory_size,
             policy_state, version, calls, last, got>>

serverVars == <<num_actors, max_lag, num_active_actors, serverPc, inbox, held,
                finished, samples, event>>

mpVars == <<state_cache, mpPc, mpIdx, mpToSend, mpRollout, toHost, toMgr, hostPc,
            hostPolicy, exits>>

mpOnly == <<mpPc, mpIdx, mpToSend, mpRollout, toHost, toMgr, hostPc, hostPolicy, exits>>

gwVars == <<data_parallel, gwPc, gwIn, gwReplies, gwPolicy, gwSent>>

distVars == <<num_hosts, policy2host, distPc, distRollout, distToSend, dones, msg_dict,
              arrivals, netToHost, netToMgr, nodePc, policy_dict, gwVars>>

trVars == <<num_trainers, exp_cache, num_experiences_by_policy, trPc, trIdx, trToSend,
            exp_to_send, trDones, trIn, trOut, trainerPc, trainerPolicy, trExits,
            dispatched>>

allocVars == <<allocArgs, allocation>>

dpVars == <<num_grad_workers, policy2workers, worker_init, handed>>

restVars == <<trVars, allocVars, dpVars>>

vars == <<mgrVars, serverVars, mpVars, distVars, trVars, allocVars, dpVars>>

\* ---------------------------------------------------- idle values
Options == [update_trigger : Triggers, warmup : Warmups, reset_memory : BOOLEAN]
IdleOption == [update_trigger |-> 1, warmup |-> 1, reset_memory |-> FALSE]
InitCall == [op |-> "init", named |-> {}, updated |-> {}, prev |-> 0]
NoCall == [called |-> FALSE, arg |-> None, ret |-> <<>>]
ActorIds == 1..MaxActors
NoMsg == [tag |-> "none", version |-> -1, rollout_info |-> <<>>]
NoEvent == [tag |-> "none", from |-> 0, tagged |-> -1, before |-> 0,
            stateBefore |-> <<>>, updates |-> 0, replies |-> <<>>]
EmptyMap == [name \in {} |-> 0]

\* the fields of the in-process managers, for a specification that runs another one
ManagerIdle(kind) ==
    /\ mgr = kind
    /\ update_option = [name \in Policies |-> IdleOption]
    /\ update_history = <<>>
    /\ new_exp_counter = [name \in Policies |-> 0]
    /\ memory_size = [name \in Policies |-> 0]
    /\ policy_state = [name \in Policies |-> 0]
    /\ version = 0
    /\ calls = 0
    /\ last = InitCall
    /\ got = NoCall

ServerIdle ==
    /\ num_actors = 0
    /\ max_lag = 0
    /\ num_active_actors = 0
    /\ serverPc = "idle"
    /\ inbox = [a \in ActorIds |-> NoMsg]
    /\ held = [a \in ActorIds |-> -1]
    /\ finished = [a \in ActorIds |-> FALSE]
    /\ samples = 0
    /\ event = NoEvent

MPIdle ==
    /\ state_cache = EmptyMap
    /\ mpPc = "off"
    /\ mpIdx = 0
    /\ mpToSend = {}
    /\ mpRollout = EmptyMap
    /\ toHost = [name \in Policies |-> <<>>]
    /\ toMgr = [name \in Policies |-> <<>>]
    /\ hostPc = [name \in Policies |-> "off"]
    /\ hostPolicy = [name \in Policies |-> 0]
    /\ exits = 0

DistIdle ==
    /\ num_hosts = 0
    /\ policy2host = EmptyMap
    /\ distPc = "off"
    /\ distRollout = EmptyMap
    /\ distToSend = {}
    /\ dones = 0
    /\ msg_dict = EmptyMap
    /\ arrivals = <<>>
    /\ netToHost = [h \in HostIds |-> <<>>]
    /\ netToMgr = {}
    /\ nodePc = [h \in HostIds |-> "off"]
    /\ policy_dict = [h \in HostIds |-> EmptyMap]
    /\ data_parallel = FALSE
    /\ gwPc = [w \in GradWorkerIds |-> "off"]
    /\ gwIn = [w \in GradWorkerIds |-> <<>>]
    /\ gwReplies = <<>>
    /\ gwPolicy = [w \in GradWorkerIds |-> EmptyMap]
    /\ gwSent = 0

TrIdle ==
    /\ num_trainers = 0
    /\ exp_cache = [name \in Policies |-> 0]
    /\ num_experiences_by_policy = [name \in Policies |-> 0]
    /\ trPc = "off"
    /\ trIdx = 0
    /\ trToSend = {}
    /\ exp_to_send = EmptyMap
    /\ trDones = 0
    /\ trIn = [t \in TrainerIds |-> <<>>]
    /\ trOut = [t \in TrainerIds |-> <<>>]
    /\ trainerPc = [t \in TrainerIds |-> "off"]
    /\ trainerPolicy = [t \in TrainerIds |-> EmptyMap]
    /\ trExits = 0
    /\ dispatched = [name \in Policies |-> 0]

NoAllocation == [made |-> FALSE]

AllocIdle ==
    /\ allocArgs = [num_trainers |-> 0, num_experiences_by_policy |-> <<>>]
    /\ allocation = NoAllocation

PoolIds == 0..(MaxGradPool - 1)                \* i of "GRAD_WORKER.i" in the pool

DpIdle ==
    /\ num_grad_workers = 0
    /\ policy2workers = EmptyMap
    /\ worker_init = [w \in PoolIds |-> {}]
    /\ handed = EmptyMap

RestIdle == TrIdle /\ AllocIdle /\ DpIdle

\* ------------------------------------------------------------- inputs
\* dictionaries keyed by a subset of the policy names
PartialMaps(V) == UNION {[S -> V] : S \in SUBSET Policies}
ExpInputs == PartialMaps(ExpSizes)         \* exp_by_policy, by ExperienceSet.size
RolloutInputs == PartialMaps(RecordKinds)  \* rollout_info, by type of first record

\* ------------------------------------------- policy/policy_manager.py

\* AbsPolicyManager.version
HistoryVersion(h) == Len(h) - 1

\* h[i] of a Python list: indices from 0, negative ones count from the end
PyItem(h, i) == IF i < 0 THEN h[Len(h) + i + 1] ELSE h[i + 1]

\* the loop of get_state: the union of h[lo], ..., h[hi - 1] (Python indices)
RECURSIVE HistoryUnion(_, _, _)
HistoryUnion(h, lo, hi) ==
    IF lo >= hi THEN {} ELSE PyItem(h, lo) \cup HistoryUnion(h, lo + 1, hi)

get_state_inclusive(h, ps, cur_version) ==
    LET cv == IF cur_version = None THEN HistoryVersion(h) - 1 ELSE cur_version[1]
        updated == HistoryUnion(h, cv, Len(h))
    IN  [name \in updated |-> ps[name]]

get_state_from_current(h, ps, cur_version) ==
    LET cv == IF cur_version = None THEN HistoryVersion(h) ELSE cur_version[1]
        updated == HistoryUnion(h, cv + 1, Len(h))
    IN  [name \in updated |-> ps[name]]

\* AbsPolicyManager.get_state(cur_version)
get_state(h, ps, cur_version) ==
    LET cv == IF cur_version = None THEN HistoryVersion(h) - 1 ELSE cur_version[1]
        updated == HistoryUnion(h, cv + 1, Len(h))
    IN  [name \in updated |-> ps[name]]

LocalDueTriggerOnly(name, exp) ==
    new_exp_counter[name] + exp[name] >= update_option[name].update_trigger

\* LocalPolicyManager.update: the update condition of one policy, evaluated
\* after its experience was stored and counted
LocalDue(name, exp) ==
    /\ new_exp_counter[name] + exp[name] >= update_option[name].update_trigger
    /\ memory_size[name] + exp[name] >= update_option[name].warmup

AppendOnePerPolicy(h, updated) ==
    LET RECURSIVE App(_, _)
        App(hh, S) == IF S = {} THEN hh
                      ELSE LET x == CHOOSE y \in S : TRUE
                           IN  App(Append(hh, {x}), S \ {x})
    IN  App(h, updated)

RecordAllPolicies(h, updated) ==
    IF updated # {} THEN Append(h, Policies) ELSE h

RecordEveryCall(h, updated) == Append(h, updated)

\* LocalPolicyManager.update: "if updated: self._update_history.append(updated)"
RecordUpdate(h, updated) ==
    IF updated # {} THEN Append(h, updated) ELSE h

CurrentVersion ==
    IF mgr = "Local" THEN HistoryVersion(update_history) ELSE version

LocalUpdate(exp) ==
    LET updated == {name \in DOMAIN exp : LocalDue(name, exp)}
    IN  /\ mgr = "Local"
        /\ calls < MaxCalls
        /\ memory_size' = [name \in Policies |->
              IF name \notin DOMAIN exp THEN memory_size[name]
              ELSE IF name \in updated /\ update_option[name].reset_memory THEN 0
              ELSE memory_size[name] + exp[name]]
        /\ new_exp_counter' = [name \in Policies |->
              IF name \notin DOMAIN exp THEN new_exp_counter[name]
              ELSE IF name \in updated THEN 0
              ELSE new_exp_counter[name] + exp[name]]
        /\ policy_state' = [name \in Policies |->
              IF name \in updated THEN policy_state[name] + num_epochs
              ELSE policy_state[name]]
        /\ update_history' = RecordUpdate(update_history, updated)
        /\ calls' = calls + 1
        /\ last' = [op |-> "update", named |-> DOMAIN exp, updated |-> updated,
                    prev |-> CurrentVersion]
        /\ got' = NoCall
        /\ UNCHANGED <<mgr, update_option, version>>
        /\ UNCHANGED <<serverVars, mpVars, distVars, restVars>>

LocalGetState(cur_version) ==
    /\ mgr = "Local"
    /\ got' = [called |-> TRUE, arg |-> cur_version,
               ret |-> get_state(update_history, policy_state, cur_version)]
    /\ UNCHANGED <<mgr, update_option, update_history, new_exp_counter,
                   memory_size, policy_state, version, calls, last>>
    /\ UNCHANGED <<serverVars, mpVars, distVars, restVars>>

\* ----------------------------------------- learning/policy_manager.py
\* SimplePolicyManager.update: the policies of rollout_info whose first
\* record is a Trajectory or a LossInfo are learnt from; any other record
\* type falls through both branches
Learnt(rollout_info) ==
    {name \in DOMAIN rollout_info : rollout_info[name] \in {"Trajectory", "LossInfo"}}

\* SimplePolicyManager.update: "self._version += 1"
SimpleNextVersion(v, rollout_info) == v + 1

\* SimplePolicyManager.update, the whole call
SimpleUpdateCall(rollout_info) ==
    /\ policy_state' = [name \in Policies |->
          IF name \in Learnt(rollout_info) THEN policy_state[name] + 1
          ELSE policy_state[name]]
    /\ version' = SimpleNextVersion(version, rollout_info)
    /\ calls' = calls + 1
    /\ last' = [op |-> "update", named |-> DOMAIN rollout_info,
                updated |-> Learnt(rollout_info), prev |-> version]
    /\ got' = NoCall

SimpleUpdate(rollout_info) ==
    /\ mgr = "Simple"
    /\ calls < MaxCalls
    /\ SimpleUpdateCall(rollout_info)
    /\ UNCHANGED <<mgr, update_option, update_history, new_exp_counter, memory_size>>
    /\ UNCHANGED <<serverVars, mpVars, distVars, restVars>>

\* SimplePolicyManager.get_state: takes no version, returns every policy
simple_get_state(ps) == [name \in Policies |-> ps[name]]

SimpleGetState ==
    /\ mgr = "Simple"
    /\ got' = [called |-> TRUE, arg |-> None, ret |-> simple_get_state(policy_state)]
    /\ UNCHANGED <<mgr, update_option, update_history, new_exp_counter,
                   memory_size, policy_state, version, calls, last>>
    /\ UNCHANGED <<serverVars, mpVars, distVars, restVars>>

\* ------------------------------------- AbsPolicyManager.server (learning/)
Actors == 1..num_actors
\* rollout_info payloads the actors send: one policy, or all of them
ServerRollouts == {[name \in {PolicyOrder[1]} |-> "Trajectory"],
                   [name \in Policies |-> "Trajectory"]}

PolicyStateReplyInitial(to, ps, v) ==
    [to |-> to, state |-> simple_get_state(ps), version |-> 0]

\* the body of a POLICY_STATE reply: self.get_state() and self.get_version()
PolicyStateReply(to, ps, v) ==
    [to |-> to, state |-> simple_get_state(ps), version |-> v]

IsStaleInclusive(current, tagged, lag) == current - tagged >= lag

IsStaleLenient(current, tagged, lag) == current - tagged > lag + 1

\* "if self.get_version() - msg.body[MsgKey.VERSION] > max_lag"
IsStale(current, tagged, lag) == current - tagged > lag

ReachesZeroEarly(n) == n <= 1

\* "if num_active_actors == 0"
ReachesZero(n) == n = 0

\* an actor asks for the initial policy state
ActorGetInitial(a) ==
    /\ a \in Actors /\ ~finished[a] /\ inbox[a].tag = "none" /\ held[a] = -1
    /\ inbox' = [inbox EXCEPT ![a] = [NoMsg EXCEPT !.tag = "GET_INITIAL_POLICY_STATE"]]
    /\ UNCHANGED <<num_actors, max_lag, num_active_actors, serverPc, held, finished,
                   samples, event>>
    /\ UNCHANGED <<mgrVars, mpVars, distVars, restVars>>

\* an actor reports a finished roll-out, tagged with the policy version it holds
ActorSampleDone(a, rollout_info) ==
    /\ a \in Actors /\ ~finished[a] /\ inbox[a].tag = "none" /\ held[a] >= 0
    /\ samples < MaxSamples
    /\ inbox' = [inbox EXCEPT ![a] = [tag |-> "SAMPLE_DONE", version |-> held[a],
                                       rollout_info |-> rollout_info]]
    /\ samples' = samples + 1
    /\ UNCHANGED <<num_actors, max_lag, num_active_actors, serverPc, held, finished,
                   event>>
    /\ UNCHANGED <<mgrVars, mpVars, distVars, restVars>>

\* an actor signs off
ActorDone(a) ==
    /\ a \in Actors /\ ~finished[a] /\ inbox[a].tag = "none"
    /\ inbox' = [inbox EXCEPT ![a] = [NoMsg EXCEPT !.tag = "DONE"]]
    /\ finished' = [finished EXCEPT ![a] = TRUE]
    /\ UNCHANGED <<num_actors, max_lag, num_active_actors, serverPc, held, samples,
                   event>>
    /\ UNCHANGED <<mgrVars, mpVars, distVars, restVars>>

\* an actor sends a message with a tag server() has no branch for
ActorOther(a) ==
    /\ a \in Actors /\ ~finished[a] /\ inbox[a].tag = "none"
    /\ inbox' = [inbox EXCEPT ![a] = [NoMsg EXCEPT !.tag = "UNEXPECTED"]]
    /\ UNCHANGED <<num_actors, max_lag, num_active_actors, serverPc, held, finished,
                   samples, event>>
    /\ UNCHANGED <<mgrVars, mpVars, distVars, restVars>>

\* server(): "if msg.tag == MsgTag.GET_INITIAL_POLICY_STATE"
HandleGetInitial(a) ==
    /\ serverPc = "serving"
    /\ inbox[a].tag = "GET_INITIAL_POLICY_STATE"
    /\ inbox' = [inbox EXCEPT ![a] = NoMsg]
    /\ held' = [held EXCEPT ![a] = version]
    /\ event' = [tag |-> inbox[a].tag, from |-> a, tagged |-> -1, before |-> version,
                 stateBefore |-> policy_state, updates |-> 0,
                 replies |-> <<PolicyStateReply(a, policy_state, version)>>]
    /\ UNCHANGED <<num_actors, max_lag, num_active_actors, serverPc, finished, samples>>
    /\ UNCHANGED <<mgrVars, mpVars, distVars, restVars>>

\* server(): "elif msg.tag == MsgTag.SAMPLE_DONE"
HandleSampleDone(a) ==
    LET msg == inbox[a]
        stale == IsStale(version, msg.version, max_lag)
    IN  /\ serverPc = "serving"
        /\ msg.tag = "SAMPLE_DONE"
        /\ IF stale
           THEN UNCHANGED <<policy_state, version, calls, last, got>>
           ELSE SimpleUpdateCall(msg.rollout_info)
        /\ inbox' = [inbox EXCEPT ![a] = NoMsg]
        /\ held' = [held EXCEPT ![a] = version']
            /\ event' = [tag |-> msg.tag, from |-> a, tagged |-> msg.version,
                     before |-> version, stateBefore |-> policy_state,
                     updates |-> calls' - calls,
                     replies |-> <<PolicyStateReply(a, policy_state', version')>>]
        /\ UNCHANGED <<num_actors, max_lag, num_active_actors, serverPc, finished, samples>>
        /\ UNCHANGED <<mgr, update_option, update_history, new_exp_counter, memory_size>>
        /\ UNCHANGED <<mpVars, distVars, restVars>>

\* server(): "elif msg.tag == MsgTag.DONE"
HandleDone(a) ==
    /\ serverPc = "serving"
    /\ inbox[a].tag = "DONE"
    /\ inbox' = [inbox EXCEPT ![a] = NoMsg]
    /\ num_active_actors' = num_active_actors - 1
    /\ serverPc' = IF ReachesZero(num_active_actors') THEN "returned" ELSE "serving"
    /\ event' = [tag |-> inbox[a].tag, from |-> a, tagged |-> -1, before |-> version,
                 stateBefore |-> policy_state, updates |-> 0, replies |-> <<>>]
    /\ UNCHANGED <<num_actors, max_lag, held, finished, samples>>
    /\ UNCHANGED <<mgrVars, mpVars, distVars, restVars>>

\* server(): a tag that matches none of the three branches; the if-chain has
\* no else, so the loop goes on to the next message
HandleOther(a) ==
    /\ serverPc = "serving"
    /\ inbox[a].tag \notin {"none", "GET_INITIAL_POLICY_STATE", "SAMPLE_DONE", "DONE"}
    /\ inbox' = [inbox EXCEPT ![a] = NoMsg]
    /\ event' = [tag |-> inbox[a].tag, from |-> a, tagged |-> -1, before |-> version,
                 stateBefore |-> policy_state, updates |-> 0, replies |-> <<>>]
    /\ UNCHANGED <<num_actors, max_lag, num_active_actors, serverPc, held, finished,
                   samples>>
    /\ UNCHANGED <<mgrVars, mpVars, distVars, restVars>>

InitServer ==
    /\ ManagerIdle("Simple")
    /\ num_actors \in 1..MaxActors
    /\ max_lag \in 0..MaxLagBound
    /\ num_active_actors = num_actors
    /\ serverPc = "serving"
    /\ inbox = [a \in ActorIds |-> NoMsg]
    /\ held = [a \in ActorIds |-> -1]
    /\ finished = [a \in ActorIds |-> FALSE]
    /\ samples = 0
    /\ event = NoEvent
    /\ MPIdle
    /\ DistIdle
    /\ RestIdle

NextServer ==
    \/ \E a \in ActorIds : ActorGetInitial(a)
    \/ \E a \in ActorIds : \E rollout_info \in ServerRollouts : ActorSampleDone(a, rollout_info)
    \/ \E a \in ActorIds : ActorDone(a)
    \/ \E a \in ActorIds : HandleGetInitial(a)
    \/ \E a \in ActorIds : HandleSampleDone(a)
    \/ \E a \in ActorIds : HandleDone(a)
    \/ \E a \in ActorIds : ActorOther(a)
    \/ \E a \in ActorIds : HandleOther(a)

SpecServer == InitServer /\ [][NextServer]_vars

\* ------------------------- MultiProcessPolicyManager (learning/), data_parallel off
NumHosted == Len(PolicyOrder)

\* the only manager state the multi-process manager shares with the others
mpShared == <<version, calls>>
mpUnused == <<mgr, update_option, update_history, new_exp_counter, memory_size,
              policy_state, last, got>>

\* _policy_host: "policy = create_policy_func(name)" ... "conn.send({'type': 'init', ...})"
HostStart(name) ==
    /\ hostPc[name] = "start"
    /\ toMgr' = [toMgr EXCEPT ![name] =
                    Append(@, [type |-> "init", policy_state |-> hostPolicy[name]])]
    /\ hostPc' = [hostPc EXCEPT ![name] = "loop"]
    /\ UNCHANGED <<state_cache, mpPc, mpIdx, mpToSend, mpRollout, toHost, hostPolicy, exits>>
    /\ UNCHANGED <<mgrVars, serverVars, distVars, restVars>>

LearnDoneBefore(before, after) == [type |-> "learn_done", policy_state |-> before]

\* _policy_host: "{'type': 'learn_done', 'policy_state': policy.get_state()}",
\* built after the learning step
LearnDone(before, after) == [type |-> "learn_done", policy_state |-> after]

\* _policy_host: one turn of "while True: msg = conn.recv()"
HostRecv(name) ==
    /\ hostPc[name] = "loop"
    /\ toHost[name] # <<>>
    /\ LET msg == Head(toHost[name])
       IN  /\ toHost' = [toHost EXCEPT ![name] = Tail(@)]
           /\ IF msg.type = "learn"
              THEN IF msg.rollout_info \in {"Trajectory", "LossInfo"}
                   THEN /\ hostPolicy' = [hostPolicy EXCEPT ![name] = @ + 1]
                        /\ toMgr' = [toMgr EXCEPT ![name] =
                              Append(@, LearnDone(hostPolicy[name], hostPolicy[name] + 1))]
                        /\ UNCHANGED hostPc
                   ELSE \* raise TypeError: the process dies without a reply
                        /\ hostPc' = [hostPc EXCEPT ![name] = "crashed"]
                        /\ UNCHANGED <<hostPolicy, toMgr>>
              ELSE IF msg.type = "quit"
                   THEN /\ hostPc' = [hostPc EXCEPT ![name] = "stopped"]
                        /\ UNCHANGED <<hostPolicy, toMgr>>
                   ELSE UNCHANGED <<hostPc, hostPolicy, toMgr>>
    /\ UNCHANGED <<state_cache, mpPc, mpIdx, mpToSend, mpRollout, exits>>
    /\ UNCHANGED <<mgrVars, serverVars, distVars, restVars>>

\* __init__: "for policy_name, conn in self._manager_end.items(): msg = conn.recv()"
MPRecvInit ==
    /\ mpPc = "init"
    /\ LET name == PolicyOrder[mpIdx]
       IN  /\ toMgr[name] # <<>>
           /\ toMgr' = [toMgr EXCEPT ![name] = Tail(@)]
           /\ state_cache' = IF Head(toMgr[name]).type = "init"
                             THEN (name :> Head(toMgr[name]).policy_state) @@ state_cache
                             ELSE state_cache
    /\ mpIdx' = IF mpIdx = NumHosted THEN 0 ELSE mpIdx + 1
    /\ mpPc' = IF mpIdx = NumHosted THEN "idle" ELSE "init"
    /\ UNCHANGED <<mpToSend, mpRollout, toHost, hostPc, hostPolicy, exits>>
    /\ UNCHANGED <<mgrVars, serverVars, distVars, restVars>>

AllSentAfterFirst(toSend) == TRUE

\* update(): the dispatch loop has run over all its destinations
AllSent(toSend) == toSend = {}

\* update(): entry
MPUpdateStart(rollout_info) ==
    /\ mpPc = "idle"
    /\ calls < MaxCalls
    /\ calls' = calls + 1
    /\ mpRollout' = rollout_info
    /\ mpToSend' = DOMAIN rollout_info
    /\ mpPc' = IF DOMAIN rollout_info = {} THEN "recv" ELSE "send"
    /\ mpIdx' = IF DOMAIN rollout_info = {} THEN 1 ELSE 0
    /\ UNCHANGED <<state_cache, toHost, toMgr, hostPc, hostPolicy, exits>>
    /\ UNCHANGED <<version, mpUnused, serverVars, distVars, restVars>>

\* update(): "for policy_name, info_list in rollout_info.items(): ... .send({'type': 'learn', ...})"
MPSend(name) ==
    /\ mpPc = "send"
    /\ name \in mpToSend
    /\ toHost' = [toHost EXCEPT ![name] =
                    Append(@, [type |-> "learn", rollout_info |-> mpRollout[name]])]
    /\ mpToSend' = mpToSend \ {name}
    /\ mpPc' = IF AllSent(mpToSend') THEN "recv" ELSE "send"
    /\ mpIdx' = IF AllSent(mpToSend') THEN 1 ELSE 0
    /\ UNCHANGED <<state_cache, mpRollout, toMgr, hostPc, hostPolicy, exits>>
    /\ UNCHANGED <<mgrVars, serverVars, distVars, restVars>>

\* update(): the connections the gather loop reads, in order:
\* "for policy_name, conn in self._manager_end.items()"
Awaited(rollout_info) == PolicyOrder

\* update(): one turn of the gather loop, "msg = conn.recv()", and after the
\* last turn "self._version += 1"
MPRecv ==
    /\ mpPc = "recv"
    /\ mpIdx <= Len(Awaited(mpRollout))
    /\ LET name == Awaited(mpRollout)[mpIdx]
           last_turn == mpIdx = Len(Awaited(mpRollout))
       IN  /\ toMgr[name] # <<>>
           /\ toMgr' = [toMgr EXCEPT ![name] = Tail(@)]
           /\ state_cache' = IF Head(toMgr[name]).type = "learn_done"
                             THEN (name :> Head(toMgr[name]).policy_state) @@ state_cache
                             ELSE state_cache
           /\ mpIdx' = IF last_turn THEN 0 ELSE mpIdx + 1
           /\ mpPc' = IF last_turn THEN "idle" ELSE "recv"
           /\ version' = IF last_turn THEN version + 1 ELSE version
    /\ UNCHANGED <<mpToSend, mpRollout, toHost, hostPc, hostPolicy, exits>>
    /\ UNCHANGED <<calls, mpUnused, serverVars, distVars, restVars>>

\* the pipes of self._manager_end that conn.send reaches before it meets one
\* whose process has ended; all of them if none has
Reached(ends, ended) ==
    {ends[k] : k \in {j \in 1..Len(ends) : \A i \in 1..j : ~ended[ends[i]]}}

\* exit(): "for conn in self._manager_end.values(): conn.send({'type': 'quit'})";
\* the send raises BrokenPipeError on a pipe whose host process has ended
MPExit ==
    /\ mpPc = "idle"
    /\ exits < MaxExits
    /\ exits' = exits + 1
    /\ LET ended == [name \in Policies |-> hostPc[name] \in {"stopped", "crashed"}]
       IN  /\ toHost' = [name \in Policies |->
                 IF name \in Reached(PolicyOrder, ended)
                 THEN Append(toHost[name], [type |-> "quit"]) ELSE toHost[name]]
           /\ mpPc' = IF \E name \in Policies : ended[name] THEN "error" ELSE "idle"
    /\ UNCHANGED <<state_cache, mpIdx, mpToSend, mpRollout, toMgr, hostPc, hostPolicy>>
    /\ UNCHANGED <<mgrVars, serverVars, distVars, restVars>>

InitMP ==
    /\ ManagerIdle("MultiProcess")
    /\ ServerIdle
    /\ DistIdle
    /\ RestIdle
    /\ state_cache = EmptyMap
    /\ mpPc = "init"
    /\ mpIdx = 1
    /\ mpToSend = {}
    /\ mpRollout = EmptyMap
    /\ toHost = [name \in Policies |-> <<>>]
    /\ toMgr = [name \in Policies |-> <<>>]
    /\ hostPc = [name \in Policies |-> "start"]
    /\ hostPolicy = [name \in Policies |-> 0]
    /\ exits = 0

NextMP ==
    \/ \E name \in Policies : HostStart(name)
    \/ \E name \in Policies : HostRecv(name)
    \/ MPRecvInit
    \/ \E rollout_info \in RolloutInputs : MPUpdateStart(rollout_info)
    \/ \E name \in Policies : MPSend(name)
    \/ MPRecv
    \/ MPExit

SpecMP == InitMP /\ [][NextMP]_vars

\* --------------------------- DistributedPolicyManager (learning/), data_parallel off
Nodes == 0..(num_hosts - 1)
DistRollouts == UNION {[S -> RecordKinds] : S \in SUBSET DOMAIN policy2host}
distUnused == <<mgr, update_option, update_history, new_exp_counter, memory_size,
                policy_state, last, got>>

AssignHostFirst(n) == [i \in 1..Len(HostedOrder) |-> 0]

\* __init__: "host_id = i % num_hosts" for the i-th policy name (from 0)
AssignHost(n) == [i \in 1..Len(HostedOrder) |-> (i - 1) % n]
Policy2Host(n) == [name \in Hosted |->
    AssignHost(n)[CHOOSE i \in 1..Len(HostedOrder) : HostedOrder[i] = name]]

\* __init__: self._host2policies, for the hosts that were assigned a policy
Host2Policies(n) ==
    LET owned(h) == {name \in Hosted : Policy2Host(n)[name] = h}
    IN  [h \in {g \in 0..(n - 1) : owned(g) # {}} |-> owned(h)]

GroupByHostWhole(rollout_info) ==
    [h \in {policy2host[name] : name \in DOMAIN rollout_info} |-> rollout_info]

\* update(): msg_dict, the rollout information grouped by owning host
GroupByHost(rollout_info) ==
    LET dest == {policy2host[name] : name \in DOMAIN rollout_info}
    IN  [h \in dest |->
            [name \in {x \in DOMAIN rollout_info : policy2host[x] = h} |-> rollout_info[name]]]

GatherDoneFirstReply(count, expected) == count >= 1

\* update(): "if dones == len(msg_dict): break"
GatherDone(count, expected) == count = expected

CacheReplace(cache, body) == body

\* "for policy_name, policy_state in msg.body[...].items(): self._state_cache[policy_name] = ..."
CacheMerge(cache, body) == body @@ cache

\* policy_host: "elif msg.tag == MsgTag.INIT_POLICIES"
NodeInit(h) ==
    /\ nodePc[h] = "loop"
    /\ netToHost[h] # <<>>
    /\ Head(netToHost[h]).tag = "INIT_POLICIES"
    /\ LET created == [name \in Head(netToHost[h]).policy_names |-> 0] @@ policy_dict[h]
       IN  /\ policy_dict' = [policy_dict EXCEPT ![h] = created]
           /\ netToMgr' = netToMgr \cup
                 {[tag |-> "INIT_POLICIES_DONE", from |-> h, policy_state |-> created]}
    /\ netToHost' = [netToHost EXCEPT ![h] = Tail(@)]
    /\ UNCHANGED <<num_hosts, policy2host, distPc, distRollout, distToSend, dones, msg_dict,
                   arrivals, nodePc>>
    /\ UNCHANGED <<state_cache, mpOnly, mgrVars, serverVars, restVars, gwVars>>

\* policy_host: "elif msg.tag == MsgTag.LEARN"; a record that is neither a
\* Trajectory nor a LossInfo raises TypeError, a policy the host did not create
\* raises KeyError, and no reply is sent
NodeLearn(h) ==
    /\ nodePc[h] = "loop"
    /\ netToHost[h] # <<>>
    /\ Head(netToHost[h]).tag = "LEARN"
    /\ LET info == Head(netToHost[h]).rollout_info
           learnt == [name \in DOMAIN policy_dict[h] |->
                        IF name \in Learnt(info) THEN policy_dict[h][name] + 1
                        ELSE policy_dict[h][name]]
       IN  IF Learnt(info) = DOMAIN info /\ DOMAIN info \subseteq DOMAIN policy_dict[h]
           THEN /\ policy_dict' = [policy_dict EXCEPT ![h] = learnt]
                /\ netToMgr' = netToMgr \cup
                      {[tag |-> "LEARN_DONE", from |-> h,
                        policy_state |-> [name \in DOMAIN info |-> learnt[name]]]}
                /\ UNCHANGED nodePc
           ELSE /\ nodePc' = [nodePc EXCEPT ![h] = "crashed"]
                /\ UNCHANGED <<policy_dict, netToMgr>>
    /\ netToHost' = [netToHost EXCEPT ![h] = Tail(@)]
    /\ UNCHANGED <<num_hosts, policy2host, distPc, distRollout, distToSend, dones, msg_dict,
                   arrivals>>
    /\ UNCHANGED <<state_cache, mpOnly, mgrVars, serverVars, restVars, gwVars>>

\* policy_host: "if msg.tag == MsgTag.EXIT"
NodeExit(h) ==
    /\ nodePc[h] = "loop"
    /\ netToHost[h] # <<>>
    /\ Head(netToHost[h]).tag = "EXIT"
    /\ nodePc' = [nodePc EXCEPT ![h] = "stopped"]
    /\ netToHost' = [netToHost EXCEPT ![h] = Tail(@)]
    /\ UNCHANGED <<num_hosts, policy2host, distPc, distRollout, distToSend, dones, msg_dict,
                   arrivals, netToMgr, policy_dict>>
    /\ UNCHANGED <<state_cache, mpOnly, mgrVars, serverVars, restVars, gwVars>>

\* self._trainer_allocator.allocate(...) on a manager with no load history:
\* the policies go round the workers in turn
WorkerPolicies(w) ==
    {HostedOrder[i] : i \in {j \in 1..Len(HostedOrder) : (j - 1) % NumGradWorkers = w}}

\* grad_worker, COMPUTE_GRAD: the names of the task the loop gets through, in
\* task order, before policy_dict[name] raises KeyError for one never created
Processed(pd, task) ==
    LET idx(name) == CHOOSE i \in 1..Len(HostedOrder) : HostedOrder[i] = name
    IN  {name \in task : \A other \in task \ DOMAIN pd : idx(name) < idx(other)}

SyncStateSkipped(pd, msg) == pd

\* grad_worker: "if MsgKey.POLICY_STATE in msg.body: policy_dict[name].set_state(...)"
\* for the names of the task
SyncState(pd, msg) ==
    [name \in DOMAIN pd |->
        IF msg.policy_state # None /\ name \in Processed(pd, DOMAIN msg.grad_task)
        THEN msg.policy_state[1][name] ELSE pd[name]]

\* grad_worker: msg_body of COMPUTE_GRAD_DONE; the loss of a policy is a
\* function of its batch and of the state it is computed against, kept here as
\* that state, with a note of whether the state was synchronised first
LossInfo(pd, msg) ==
    [name \in DOMAIN msg.grad_task |->
        [against |-> pd[name], synced |-> msg.policy_state # None]]

\* grad_worker: one turn of "for msg in proxy.receive()"
GradWorkerRecv(w) ==
    /\ gwPc[w] = "loop"
    /\ gwIn[w] # <<>>
    /\ gwIn' = [gwIn EXCEPT ![w] = Tail(@)]
    /\ LET msg == Head(gwIn[w])
       IN  IF msg.tag = "EXIT"
           THEN /\ gwPc' = [gwPc EXCEPT ![w] = "stopped"]
                /\ UNCHANGED <<netToMgr, gwReplies, gwPolicy>>
           ELSE IF msg.tag = "INIT_POLICIES"
           THEN LET created == [name \in msg.policy_names |-> 0] @@ gwPolicy[w]
                IN  /\ gwPolicy' = [gwPolicy EXCEPT ![w] = created]
                    /\ netToMgr' = netToMgr \cup
                          {[tag |-> "INIT_POLICIES_DONE", from |-> -(w + 1),
                            policy_state |-> created]}
                    /\ UNCHANGED <<gwPc, gwReplies>>
           ELSE IF msg.tag = "COMPUTE_GRAD"
           THEN LET synced == SyncState(gwPolicy[w], msg)
                IN  /\ gwPolicy' = [gwPolicy EXCEPT ![w] = synced]
                    /\ IF DOMAIN msg.grad_task \subseteq DOMAIN gwPolicy[w]
                       THEN /\ gwReplies' = Append(gwReplies,
                                  [tag |-> "COMPUTE_GRAD_DONE", from |-> -(w + 1),
                                   loss_info |-> LossInfo(synced, msg)])
                            /\ UNCHANGED gwPc
                       ELSE \* KeyError: the process dies without a reply
                            /\ gwPc' = [gwPc EXCEPT ![w] = "crashed"]
                            /\ UNCHANGED gwReplies
                    /\ UNCHANGED netToMgr
           ELSE \* raise TypeError
                /\ gwPc' = [gwPc EXCEPT ![w] = "crashed"]
                /\ UNCHANGED <<netToMgr, gwReplies, gwPolicy>>
    /\ UNCHANGED <<num_hosts, policy2host, distPc, distRollout, distToSend, dones, msg_dict,
                   arrivals, netToHost, nodePc, policy_dict, data_parallel, gwSent>>
    /\ UNCHANGED <<state_cache, mpOnly, mgrVars, serverVars, restVars>>

\* __init__: one turn of "for msg in self._proxy.receive()" caching the initial
\* states, and after the break the INIT_POLICIES to the gradient workers
DistRecvInit(msg) ==
    /\ distPc = "init"
    /\ msg \in netToMgr
    /\ netToMgr' = netToMgr \ {msg}
    /\ IF msg.tag = "INIT_POLICIES_DONE"
       THEN /\ state_cache' = CacheMerge(state_cache, msg.policy_state)
            /\ dones' = dones + 1
            /\ distPc' = IF dones' = num_hosts THEN "idle" ELSE "init"
            /\ gwIn' = IF dones' = num_hosts /\ data_parallel
                       THEN [w \in GradWorkerIds |->
                               IF WorkerPolicies(w) # {}
                               THEN Append(gwIn[w], [tag |-> "INIT_POLICIES",
                                                     policy_names |-> WorkerPolicies(w)])
                               ELSE gwIn[w]]
                       ELSE gwIn
       ELSE UNCHANGED <<state_cache, dones, distPc, gwIn>>
    /\ UNCHANGED <<data_parallel, gwPc, gwReplies, gwPolicy, gwSent>>
    /\ UNCHANGED <<num_hosts, policy2host, distRollout, distToSend, msg_dict, arrivals,
                   netToHost, nodePc, policy_dict>>
    /\ UNCHANGED <<mpOnly, mgrVars, serverVars, restVars>>

\* update(): build msg_dict and "dones = 0"; the iscatter of LEARN follows
DistUpdateStart(rollout_info) ==
    /\ distPc = "idle"
    /\ calls < MaxCalls
    /\ calls' = calls + 1
    /\ distRollout' = rollout_info
    /\ msg_dict' = GroupByHost(rollout_info)
    /\ distToSend' = DOMAIN msg_dict'
    /\ dones' = 0
    /\ arrivals' = <<>>
    /\ distPc' = IF AllSent(distToSend') THEN "gather" ELSE "scatter"
    /\ UNCHANGED <<num_hosts, policy2host, netToHost, netToMgr, nodePc, policy_dict>>
    /\ UNCHANGED <<state_cache, mpOnly, version, distUnused, serverVars, restVars, gwVars>>

\* update(): "self._proxy.iscatter(MsgTag.LEARN, SessionType.TASK, list(msg_dict.items()))",
\* one destination at a time; the gather loop starts when it has returned
DistSend(h) ==
    /\ distPc = "scatter"
    /\ h \in distToSend
    /\ netToHost' = [netToHost EXCEPT ![h] =
          Append(@, [tag |-> "LEARN", rollout_info |-> msg_dict[h]])]
    /\ distToSend' = distToSend \ {h}
    /\ distPc' = IF AllSent(distToSend') THEN "gather" ELSE "scatter"
    /\ UNCHANGED <<num_hosts, policy2host, distRollout, dones, msg_dict, arrivals, netToMgr,
                   nodePc, policy_dict>>
    /\ UNCHANGED <<state_cache, mpOnly, mgrVars, serverVars, restVars, gwVars>>

\* update(): one turn of "for msg in self._proxy.receive()", and after the
\* break "self._version += 1"
DistRecvLearnDone(msg) ==
    /\ distPc = "gather"
    /\ msg \in netToMgr
    /\ netToMgr' = netToMgr \ {msg}
    /\ IF msg.tag = "LEARN_DONE"
       THEN /\ state_cache' = CacheMerge(state_cache, msg.policy_state)
            /\ dones' = dones + 1
            /\ arrivals' = Append(arrivals, msg.from)
            /\ IF GatherDone(dones', Cardinality(DOMAIN msg_dict))
               THEN distPc' = "idle" /\ version' = version + 1
               ELSE UNCHANGED <<distPc, version>>
       ELSE UNCHANGED <<state_cache, dones, arrivals, distPc, version>>
    /\ UNCHANGED <<num_hosts, policy2host, distRollout, distToSend, msg_dict, netToHost,
                   nodePc, policy_dict>>
    /\ UNCHANGED <<mpOnly, calls, distUnused, serverVars, restVars, gwVars>>

\* exit(): "ibroadcast('policy_host', MsgTag.EXIT, ...)" and "self._proxy.close()"
DistExit ==
    /\ distPc = "idle"
    /\ netToHost' = [h \in HostIds |->
          IF h \in Nodes THEN Append(netToHost[h], [tag |-> "EXIT"]) ELSE netToHost[h]]
    /\ distPc' = "closed"
    /\ UNCHANGED <<num_hosts, policy2host, distRollout, distToSend, dones, msg_dict,
                   arrivals, netToMgr, nodePc, policy_dict>>
    /\ UNCHANGED <<state_cache, mpOnly, mgrVars, serverVars, restVars, gwVars>>

\* the state right after __init__ has sent INIT_POLICIES to the assigned hosts
InitDist ==
    /\ ManagerIdle("Distributed")
    /\ ServerIdle
    /\ RestIdle
    /\ state_cache = EmptyMap
    /\ mpPc = "off"
    /\ mpIdx = 0
    /\ mpToSend = {}
    /\ mpRollout = EmptyMap
    /\ toHost = [name \in Policies |-> <<>>]
    /\ toMgr = [name \in Policies |-> <<>>]
    /\ hostPc = [name \in Policies |-> "off"]
    /\ hostPolicy = [name \in Policies |-> 0]
    /\ exits = 0
    /\ num_hosts \in 1..MaxHosts
    /\ policy2host = Policy2Host(num_hosts)
    /\ distPc = "init"
    /\ distRollout = EmptyMap
    /\ distToSend = {}
    /\ dones = 0
    /\ msg_dict = EmptyMap
    /\ arrivals = <<>>
    /\ netToHost = [h \in HostIds |->
          IF h \in DOMAIN Host2Policies(num_hosts)
          THEN <<[tag |-> "INIT_POLICIES", policy_names |-> Host2Policies(num_hosts)[h]]>>
          ELSE <<>>]
    /\ netToMgr = {}
    /\ nodePc = [h \in HostIds |-> IF h < num_hosts THEN "loop" ELSE "off"]
    /\ policy_dict = [h \in HostIds |-> EmptyMap]
    /\ data_parallel \in BOOLEAN
    /\ gwPc = [w \in GradWorkerIds |-> IF data_parallel THEN "loop" ELSE "off"]
    /\ gwIn = [w \in GradWorkerIds |-> <<>>]
    /\ gwReplies = <<>>
    /\ gwPolicy = [w \in GradWorkerIds |-> EmptyMap]
    /\ gwSent = 0

NextDist ==
    \/ \E h \in HostIds : NodeInit(h)
    \/ \E h \in HostIds : NodeLearn(h)
    \/ \E h \in HostIds : NodeExit(h)
    \/ \E msg \in netToMgr : DistRecvInit(msg)
    \/ \E w \in GradWorkerIds : GradWorkerRecv(w)
    \/ \E rollout_info \in DistRollouts : DistUpdateStart(rollout_info)
    \/ \E h \in HostIds : DistSend(h)
    \/ \E msg \in netToMgr : DistRecvLearnDone(msg)
    \/ DistExit

SpecDist == InitDist /\ [][NextDist]_vars

\* ----------------------- DistributedPolicyManager with fewer policies than names
\* create_policy_func_dict holds the first k policy names only, so that
\* num_hosts may exceed the number of policies
FirstPolicies(k) == {HostedOrder[i] : i \in 1..k}

\* __init__: self._policy2host and self._host2policies for these policies
Policy2HostOf(names, n) == [name \in names |-> Policy2Host(n)[name]]
Host2PoliciesOf(names, n) ==
    LET owned(h) == {name \in names : Policy2HostOf(names, n)[name] = h}
    IN  [h \in {g \in 0..(n - 1) : owned(g) # {}} |-> owned(h)]

\* the state right after __init__ has sent INIT_POLICIES to the assigned hosts
InitDistFew ==
    /\ ManagerIdle("Distributed")
    /\ ServerIdle
    /\ MPIdle
    /\ RestIdle
    /\ num_hosts \in 1..MaxHosts
    /\ \E k \in 1..(Len(HostedOrder) - 1) :
          /\ policy2host = Policy2HostOf(FirstPolicies(k), num_hosts)
          /\ netToHost = [h \in HostIds |->
                IF h \in DOMAIN Host2PoliciesOf(FirstPolicies(k), num_hosts)
                THEN <<[tag |-> "INIT_POLICIES",
                        policy_names |-> Host2PoliciesOf(FirstPolicies(k), num_hosts)[h]]>>
                ELSE <<>>]
    /\ distPc = "init"
    /\ distRollout = EmptyMap
    /\ distToSend = {}
    /\ dones = 0
    /\ msg_dict = EmptyMap
    /\ arrivals = <<>>
    /\ netToMgr = {}
    /\ nodePc = [h \in HostIds |-> IF h < num_hosts THEN "loop" ELSE "off"]
    /\ policy_dict = [h \in HostIds |-> EmptyMap]
    /\ data_parallel = FALSE
    /\ gwPc = [w \in GradWorkerIds |-> "off"]
    /\ gwIn = [w \in GradWorkerIds |-> <<>>]
    /\ gwReplies = <<>>
    /\ gwPolicy = [w \in GradWorkerIds |-> EmptyMap]
    /\ gwSent = 0

\* the manager and its hosts, without gradient workers
NextDistFew ==
    \/ \E h \in HostIds : NodeInit(h)
    \/ \E h \in HostIds : NodeLearn(h)
    \/ \E h \in HostIds : NodeExit(h)
    \/ \E msg \in netToMgr : DistRecvInit(msg)
    \/ \E rollout_info \in DistRollouts : DistUpdateStart(rollout_info)
    \/ \E h \in HostIds : DistSend(h)
    \/ \E msg \in netToMgr : DistRecvLearnDone(msg)
    \/ DistExit

SpecDistFew == InitDistFew /\ [][NextDistFew]_vars

\* ------------------------------------------- a gradient worker on its own
\* the messages a gradient worker is sent: INIT_POLICIES by the manager,
\* COMPUTE_GRAD with or without a pushed state by a policy that learns on remote
\* workers, EXIT, and a tag it has no branch for
GradRequests(w) ==
    {[tag |-> "INIT_POLICIES", policy_names |-> WorkerPolicies(w)],
     [tag |-> "EXIT"], [tag |-> "UNEXPECTED"]}
    \cup {[tag |-> "COMPUTE_GRAD", grad_task |-> [name \in task |-> "batch"],
           policy_state |-> pushed] :
             task \in GradTasks,
             pushed \in {None} \cup
                 UNION {{<<[name \in t |-> v]>> : v \in Snapshots} : t \in GradTasks}}

\* a peer sends the worker a message
WorkerRequest(w, msg) ==
    /\ gwPc[w] # "off"
    /\ gwSent < MaxGradMsgs
    /\ msg.tag = "COMPUTE_GRAD" /\ msg.policy_state # None
          => DOMAIN msg.policy_state[1] = DOMAIN msg.grad_task
    /\ gwSent' = gwSent + 1
    /\ gwIn' = [gwIn EXCEPT ![w] = Append(@, msg)]
    /\ UNCHANGED <<num_hosts, policy2host, distPc, distRollout, distToSend, dones, msg_dict,
                   arrivals, netToHost, netToMgr, nodePc, policy_dict, data_parallel,
                   gwPc, gwReplies, gwPolicy>>
    /\ UNCHANGED <<state_cache, mpOnly, mgrVars, serverVars, restVars>>

InitGradWorker ==
    /\ ManagerIdle("Distributed")
    /\ ServerIdle
    /\ MPIdle
    /\ RestIdle
    /\ num_hosts = 0
    /\ policy2host = EmptyMap
    /\ distPc = "off"
    /\ distRollout = EmptyMap
    /\ distToSend = {}
    /\ dones = 0
    /\ msg_dict = EmptyMap
    /\ arrivals = <<>>
    /\ netToHost = [h \in HostIds |-> <<>>]
    /\ netToMgr = {}
    /\ nodePc = [h \in HostIds |-> "off"]
    /\ policy_dict = [h \in HostIds |-> EmptyMap]
    /\ data_parallel = TRUE
    /\ gwPc = [w \in GradWorkerIds |-> "loop"]
    /\ gwIn = [w \in GradWorkerIds |-> <<>>]
    /\ gwReplies = <<>>
    /\ gwPolicy = [w \in GradWorkerIds |-> EmptyMap]
    /\ gwSent = 0

NextGradWorker ==
    \/ \E w \in GradWorkerIds : \E msg \in GradRequests(w) : WorkerRequest(w, msg)
    \/ \E w \in GradWorkerIds : GradWorkerRecv(w)

SpecGradWorker == InitGradWorker /\ [][NextGradWorker]_vars

\* ------------- MultiProcessPolicyManager and MultiNodePolicyManager (policy/)
\* mgr = "TrainerProcesses" is the first, mgr = "TrainerNodes" the second
TrainerOptions == {o \in Options : ~o.reset_memory}
trElsewhere == <<serverVars, mpVars, distVars, allocVars, dpVars>>
trFixed == <<mgr, update_option, new_exp_counter, memory_size, version, got, num_trainers>>

\* __init__: "trainer_id = i % num_trainers" for the i-th policy name (from 0)
Policy2Trainer(n) == [name \in Policies |->
    ((CHOOSE i \in 1..Len(PolicyOrder) : PolicyOrder[i] = name) - 1) % n]

\* __init__: self._trainer2policies, for the trainers that were assigned a policy
Trainer2Policies(n) ==
    LET owned(t) == {name \in Policies : Policy2Trainer(n)[name] = t}
    IN  [t \in {u \in TrainerIds : owned(u) # {}} |-> owned(t)]

\* __init__: self._manager_end, in insertion order
ManagerEnds(n) ==
    [k \in 1..Cardinality(DOMAIN Trainer2Policies(n)) |-> k - 1]

\* update(): the sizes of the caches after "self._exp_cache[policy_name].extend(exp)"
Extended(exp) ==
    [name \in Policies |->
        exp_cache[name] + (IF name \in DOMAIN exp THEN exp[name] ELSE 0)]

\* update(): the counters after "self._num_experiences_by_policy[policy_name] += exp.size"
Counted(exp) ==
    [name \in Policies |->
        num_experiences_by_policy[name] + (IF name \in DOMAIN exp THEN exp[name] ELSE 0)]

\* update(): the policies whose cache met update_trigger and whose counter met warmup
Due(exp) ==
    {name \in DOMAIN exp :
        /\ Extended(exp)[name] >= update_option[name].update_trigger
        /\ Counted(exp)[name] >= update_option[name].warmup}

\* update(): the destinations of the scatter, the keys of msg_body_by_dest
Dests(to_send) == {Policy2Trainer(num_trainers)[name] : name \in DOMAIN to_send}

\* update(): the accumulation loop, then the branch on "if exp_to_send"
TrUpdateStart(exp) ==
    /\ trPc = "idle"
    /\ calls < MaxCalls
    /\ calls' = calls + 1
    /\ num_experiences_by_policy' = Counted(exp)
    /\ exp_cache' = [name \in Policies |-> IF name \in Due(exp) THEN 0 ELSE Extended(exp)[name]]
    /\ exp_to_send' = [name \in Due(exp) |-> Extended(exp)[name]]
    /\ last' = [op |-> "update", named |-> DOMAIN exp, updated |-> Due(exp),
                prev |-> HistoryVersion(update_history)]
    /\ trDones' = 0
    /\ IF Due(exp) = {}
       THEN UNCHANGED <<trPc, trIdx, trToSend>>
       ELSE IF mgr = "TrainerProcesses"
            THEN trPc' = "send" /\ trIdx' = 1 /\ UNCHANGED trToSend
            ELSE trPc' = "scatter" /\ trToSend' = Dests(exp_to_send') /\ UNCHANGED trIdx
    /\ UNCHANGED <<trIn, trOut, trainerPc, trainerPolicy, trExits, dispatched>>
    /\ UNCHANGED <<update_history, policy_state, trFixed, trElsewhere>>

\* MultiProcessPolicyManager.update: one turn of "for trainer_id, conn in
\* self._manager_end.items(): conn.send(...)"; exp_to_send[name] raises KeyError
\* for a policy of the trainer that is not due
TrSend ==
    /\ trPc = "send"
    /\ LET t == ManagerEnds(num_trainers)[trIdx]
           last_turn == trIdx = Len(ManagerEnds(num_trainers))
       IN  IF Trainer2Policies(num_trainers)[t] \subseteq DOMAIN exp_to_send
           THEN /\ trIn' = [trIn EXCEPT ![t] = Append(@,
                      [type |-> "train",
                       experiences |-> [name \in Trainer2Policies(num_trainers)[t] |->
                                           exp_to_send[name]]])]
                /\ dispatched' = [name \in Policies |->
                      IF name \in Trainer2Policies(num_trainers)[t]
                      THEN dispatched[name] + exp_to_send[name] ELSE dispatched[name]]
                /\ trPc' = IF last_turn THEN "recv" ELSE "send"
                /\ trIdx' = IF last_turn THEN 1 ELSE trIdx + 1
           ELSE /\ trPc' = "error"
                /\ UNCHANGED <<trIn, trIdx, dispatched>>
    /\ UNCHANGED <<exp_cache, num_experiences_by_policy, trToSend, exp_to_send, trDones,
                   trOut, trainerPc, trainerPolicy, trExits>>
    /\ UNCHANGED <<update_history, policy_state, calls, last, trFixed, trElsewhere>>

\* MultiProcessPolicyManager.update: one turn of "for conn in
\* self._manager_end.values(): result = conn.recv()", and after the last turn
\* "if updated: self._update_history.append(updated)"
TrRecv ==
    /\ trPc = "recv"
    /\ LET t == ManagerEnds(num_trainers)[trIdx]
           last_turn == trIdx = Len(ManagerEnds(num_trainers))
       IN  /\ trOut[t] # <<>>
           /\ trOut' = [trOut EXCEPT ![t] = Tail(@)]
           /\ policy_state' = Head(trOut[t]).policy @@ policy_state
           /\ trPc' = IF last_turn THEN "idle" ELSE "recv"
           /\ trIdx' = IF last_turn THEN 0 ELSE trIdx + 1
           /\ update_history' = IF last_turn THEN RecordUpdate(update_history, last.updated)
                                ELSE update_history
    /\ UNCHANGED <<exp_cache, num_experiences_by_policy, trToSend, exp_to_send, trDones,
                   trIn, trainerPc, trainerPolicy, trExits, dispatched>>
    /\ UNCHANGED <<calls, last, trFixed, trElsewhere>>

\* MultiNodePolicyManager.update: "self._proxy.iscatter(MsgTag.LEARN, ...)", one
\* destination at a time
TrScatter(t) ==
    /\ trPc = "scatter"
    /\ t \in trToSend
    /\ trIn' = [trIn EXCEPT ![t] = Append(@,
          [type |-> "LEARN",
           experiences |-> [name \in {x \in DOMAIN exp_to_send :
                                         Policy2Trainer(num_trainers)[x] = t} |->
                               exp_to_send[name]]])]
    /\ dispatched' = [name \in Policies |->
          IF name \in DOMAIN exp_to_send /\ Policy2Trainer(num_trainers)[name] = t
          THEN dispatched[name] + exp_to_send[name] ELSE dispatched[name]]
    /\ trToSend' = trToSend \ {t}
    /\ trPc' = IF AllSent(trToSend') THEN "gather" ELSE "scatter"
    /\ UNCHANGED <<exp_cache, num_experiences_by_policy, trIdx, exp_to_send, trDones,
                   trOut, trainerPc, trainerPolicy, trExits>>
    /\ UNCHANGED <<update_history, policy_state, calls, last, trFixed, trElsewhere>>

\* MultiNodePolicyManager.update: one turn of "for msg in self._proxy.receive()",
\* and after the break "self._update_history.append(updated)"
TrGather(t) ==
    /\ trPc = "gather"
    /\ trOut[t] # <<>>
    /\ trOut' = [trOut EXCEPT ![t] = Tail(@)]
    /\ policy_state' = Head(trOut[t]).policy @@ policy_state
    /\ trDones' = trDones + 1
    /\ IF GatherDone(trDones', Cardinality(Dests(exp_to_send)))
       THEN /\ trPc' = "idle"
            /\ update_history' = Append(update_history, last.updated)
       ELSE UNCHANGED <<trPc, update_history>>
    /\ UNCHANGED <<exp_cache, num_experiences_by_policy, trIdx, trToSend, exp_to_send,
                   trIn, trainerPc, trainerPolicy, trExits, dispatched>>
    /\ UNCHANGED <<calls, last, trFixed, trElsewhere>>

\* the trainer's loop: it learns from the experiences it is sent and replies
\* with the states of those policies, installs states it is sent, stops on quit
TrainerRecv(t) ==
    /\ trainerPc[t] = "loop"
    /\ trIn[t] # <<>>
    /\ trIn' = [trIn EXCEPT ![t] = Tail(@)]
    /\ LET msg == Head(trIn[t])
       IN  IF msg.type \in {"train", "LEARN"}
           THEN LET learnt == [name \in DOMAIN msg.experiences |->
                                  trainerPolicy[t][name] + 1]
                IN  /\ trainerPolicy' = [trainerPolicy EXCEPT ![t] = learnt @@ @]
                    /\ trOut' = [trOut EXCEPT ![t] = Append(@, [policy |-> learnt])]
                    /\ UNCHANGED trainerPc
           ELSE IF msg.type = "INIT_POLICY_STATE"
                THEN /\ trainerPolicy' = [trainerPolicy EXCEPT ![t] = msg.policy @@ @]
                     /\ UNCHANGED <<trOut, trainerPc>>
                ELSE /\ trainerPc' = [trainerPc EXCEPT ![t] = "stopped"]
                     /\ UNCHANGED <<trOut, trainerPolicy>>
    /\ UNCHANGED <<exp_cache, num_experiences_by_policy, trPc, trIdx, trToSend, exp_to_send,
                   trDones, trExits, dispatched>>
    /\ UNCHANGED <<mgrVars, num_trainers, trElsewhere>>

\* exit(): MultiProcessPolicyManager sends quit down every pipe, and the send
\* raises BrokenPipeError on a pipe whose trainer has ended;
\* MultiNodePolicyManager broadcasts EXIT to its trainers and closes the proxy
TrExit ==
    /\ trPc = "idle"
    /\ trExits < MaxExits
    /\ trExits' = trExits + 1
    /\ IF mgr = "TrainerProcesses"
       THEN LET ends == ManagerEnds(num_trainers)
                ended == [t \in TrainerIds |-> trainerPc[t] = "stopped"]
            IN  /\ trIn' = [t \in TrainerIds |->
                      IF t \in Reached(ends, ended)
                      THEN Append(trIn[t], [type |-> "quit"]) ELSE trIn[t]]
                /\ trPc' = IF \E k \in 1..Len(ends) : ended[ends[k]] THEN "error" ELSE "idle"
       ELSE /\ trIn' = [t \in TrainerIds |->
                  IF t < num_trainers THEN Append(trIn[t], [type |-> "EXIT"]) ELSE trIn[t]]
            /\ trPc' = "closed"
    /\ UNCHANGED <<exp_cache, num_experiences_by_policy, trIdx, trToSend, exp_to_send,
                   trDones, trOut, trainerPc, trainerPolicy, dispatched>>
    /\ UNCHANGED <<mgrVars, num_trainers, trElsewhere>>

\* the state right after __init__: the trainer processes are started with the
\* initial states, the trainer nodes have been sent INIT_POLICY_STATE
InitTrainers ==
    /\ mgr \in {"TrainerProcesses", "TrainerNodes"}
    /\ update_option \in [Policies -> TrainerOptions]
    /\ update_history = <<Policies>>
    /\ new_exp_counter = [name \in Policies |-> 0]
    /\ memory_size = [name \in Policies |-> 0]
    /\ policy_state = [name \in Policies |-> 0]
    /\ version = 0
    /\ calls = 0
    /\ last = InitCall
    /\ got = NoCall
    /\ ServerIdle
    /\ MPIdle
    /\ DistIdle
    /\ AllocIdle
    /\ DpIdle
    /\ num_trainers \in 1..MaxTrainers
    /\ exp_cache = [name \in Policies |-> 0]
    /\ num_experiences_by_policy = [name \in Policies |-> 0]
    /\ trPc = "idle"
    /\ trIdx = 0
    /\ trToSend = {}
    /\ exp_to_send = EmptyMap
    /\ trDones = 0
    /\ trIn = [t \in TrainerIds |->
          IF mgr = "TrainerNodes" /\ t \in DOMAIN Trainer2Policies(num_trainers)
          THEN <<[type |-> "INIT_POLICY_STATE",
                  policy |-> [name \in Trainer2Policies(num_trainers)[t] |-> 0]]>>
          ELSE <<>>]
    /\ trOut = [t \in TrainerIds |-> <<>>]
    /\ trainerPc = [t \in TrainerIds |->
          IF mgr = "TrainerNodes"
          THEN (IF t < num_trainers THEN "loop" ELSE "off")
          ELSE (IF t \in DOMAIN Trainer2Policies(num_trainers) THEN "loop" ELSE "off")]
    /\ trainerPolicy = [t \in TrainerIds |->
          IF mgr = "TrainerProcesses" /\ t \in DOMAIN Trainer2Policies(num_trainers)
          THEN [name \in Trainer2Policies(num_trainers)[t] |-> 0]
          ELSE EmptyMap]
    /\ trExits = 0
    /\ dispatched = [name \in Policies |-> 0]

NextTrainers ==
    \/ \E exp \in ExpInputs : TrUpdateStart(exp)
    \/ TrSend
    \/ TrRecv
    \/ \E t \in TrainerIds : TrScatter(t)
    \/ \E t \in TrainerIds : TrGather(t)
    \/ \E t \in TrainerIds : TrainerRecv(t)
    \/ TrExit

SpecTrainers == InitTrainers /\ [][NextTrainers]_vars

\* ----------------------------- the managers that fan out to hosts or trainers
InitFanOut == InitMP \/ InitDist \/ InitTrainers

NextFanOut == NextMP \/ NextDist \/ NextTrainers

SpecFanOut == InitFanOut /\ [][NextFanOut]_vars

\* ------------------ MultiNodeDistPolicyManager.allocate_strategy (policy/)
\* num_experiences_by_policy is a dict: here the sequence of its values in
\* insertion order, and a policy is named by its position in it (from 1)
RECURSIVE SumSeq(_)
SumSeq(q) == IF q = <<>> THEN 0 ELSE Head(q) + SumSeq(Tail(q))

SeqsUpTo(n, V) == UNION {[1..k -> V] : k \in 0..n}

\* int(round(a / b)) for a >= 0, b > 0: Python rounds halves to the even neighbour
RoundHalfEven(a, b) ==
    LET f == a \div b
        r == a % b
    IN  IF 2 * r < b THEN f
        ELSE IF 2 * r > b THEN f + 1
        ELSE IF f % 2 = 0 THEN f ELSE f + 1

InitialQuotaAbsolute(loads, n) ==
    [i \in 1..Len(loads) |-> IF loads[i] > 1 THEN loads[i] ELSE 1]

InitialQuotaNoFloor(loads, n) ==
    [i \in 1..Len(loads) |-> RoundHalfEven(loads[i] * n, SumSeq(loads))]

\* "quota = num_exp / average_payload; quota = max(1, int(round(quota)))", with
\* average_payload = total_num_experiences / num_trainers
InitialQuota(loads, n) ==
    [i \in 1..Len(loads) |->
        LET rounded == RoundHalfEven(loads[i] * n, SumSeq(loads))
        IN  IF rounded > 1 THEN rounded ELSE 1]

\* "busiest_policy = max(policy_quota, key=...)": the first policy with the largest quota
Busiest(quota) ==
    CHOOSE i \in 1..Len(quota) :
        /\ \A j \in 1..Len(quota) : quota[j] <= quota[i]
        /\ \A j \in 1..(i - 1) : quota[j] < quota[i]

FinalQuotaUnadjusted(loads, n) == InitialQuota(loads, n)

\* "redundancy = num_trainers - sum(policy_quota.values()); if redundancy > 0: ..."
FinalQuota(loads, n) ==
    LET quota == InitialQuota(loads, n)
        redundancy == n - SumSeq(quota)
    IN  IF redundancy > 0
        THEN [quota EXCEPT ![Busiest(quota)] = @ + redundancy]
        ELSE quota

NextOffsetStuck(offset, quota, n) == offset

\* "offset = (offset + quota) % num_trainers"
NextOffset(offset, quota, n) == (offset + quota) % n

\* the warm loop "for name, quota in policy_quota.items(): for i in range(quota)":
\* the (policy, trainer) pairs in the order they are appended
RECURSIVE WarmPairs(_, _, _, _)
WarmPairs(quota, n, i, offset) ==
    IF i > Len(quota) THEN <<>>
    ELSE [k \in 1..quota[i] |-> [policy |-> i, trainer |-> (k - 1 + offset) % n]]
         \o WarmPairs(quota, n, i + 1, NextOffset(offset, quota[i], n))

\* trainer_id_list[i::step] for trainer_id_list = list(range(n)), i counted from 0
Stride(n, i, step) ==
    [k \in 1..Cardinality({t \in 0..(n - 1) : t >= i /\ (t - i) % step = 0}) |->
        i + (k - 1) * step]

\* the cold loops over enumerate(num_experiences_by_policy), in the same form
RECURSIVE ColdPairs(_, _, _)
ColdPairs(loads, n, i) ==
    IF i > Len(loads) THEN <<>>
    ELSE (IF Len(loads) >= n
          THEN <<[policy |-> i, trainer |-> (i - 1) % n]>>
          ELSE [k \in 1..Len(Stride(n, i - 1, Len(loads))) |->
                   [policy |-> i, trainer |-> Stride(n, i - 1, Len(loads))[k]]])
         \o ColdPairs(loads, n, i + 1)

\* what one key's list holds: the valField of the pairs whose keyField is key, in order
RECURSIVE Project(_, _, _, _)
Project(pairs, keyField, key, valField) ==
    IF pairs = <<>> THEN <<>>
    ELSE (IF Head(pairs)[keyField] = key THEN <<Head(pairs)[valField]>> ELSE <<>>)
         \o Project(Tail(pairs), keyField, key, valField)

\* the two defaultdict(list) the appends build
MapsOf(pairs) ==
    [policy2trainer |->
        [i \in {pairs[k].policy : k \in 1..Len(pairs)} |->
            Project(pairs, "policy", i, "trainer")],
     trainer2policies |->
        [t \in {pairs[k].trainer : k \in 1..Len(pairs)} |->
            Project(pairs, "trainer", t, "policy")]]

\* allocate_strategy(num_trainers, num_experiences_by_policy); a total load of
\* 0 makes average_payload 0.0 and the first division raises ZeroDivisionError
allocate_strategy(n, loads) ==
    IF Len(loads) = 0
    THEN [made |-> TRUE, raised |-> FALSE, maps |-> MapsOf(ColdPairs(loads, n, 1))]
    ELSE IF SumSeq(loads) = 0
    THEN [made |-> TRUE, raised |-> TRUE, maps |-> MapsOf(<<>>)]
    ELSE [made |-> TRUE, raised |-> FALSE,
          maps |-> MapsOf(WarmPairs(FinalQuota(loads, n), n, 1, 0))]

\* allocate_trainers(): "self.allocate_strategy(self.num_trainers,
\* self._num_experiences_by_policy, ...)"
Allocate ==
    /\ ~allocation.made
    /\ allocation' = allocate_strategy(allocArgs.num_trainers,
                                       allocArgs.num_experiences_by_policy)
    /\ UNCHANGED <<allocArgs, mgrVars, serverVars, mpVars, distVars, trVars, dpVars>>

\* a manager of num_policies policies of which the first few have recorded load
InitAlloc ==
    /\ ManagerIdle("MultiNodeDist")
    /\ ServerIdle
    /\ MPIdle
    /\ DistIdle
    /\ TrIdle
    /\ DpIdle
    /\ allocArgs \in [num_policies : 1..MaxAllocPolicies,
                      num_trainers : 1..MaxSlots,
                      num_experiences_by_policy : SeqsUpTo(MaxAllocPolicies, 0..MaxLoad)]
    /\ Len(allocArgs.num_experiences_by_policy) <= allocArgs.num_policies
    /\ allocation = NoAllocation

NextAlloc == Allocate

SpecAlloc == InitAlloc /\ [][NextAlloc]_vars

\* --------------------------------------------- in-process managers

InitManager ==
    /\ mgr \in {"Local", "Simple"}
    /\ update_option \in IF mgr = "Local" THEN [Policies -> Options]
                         ELSE {[name \in Policies |-> IdleOption]}
    /\ update_history = IF mgr = "Local" THEN <<Policies>> ELSE <<>>
    /\ new_exp_counter = [name \in Policies |-> 0]
    /\ memory_size = [name \in Policies |-> 0]
    /\ policy_state = [name \in Policies |-> 0]
    /\ version = 0
    /\ calls = 0
    /\ last = InitCall
    /\ got = NoCall
    /\ ServerIdle
    /\ MPIdle
    /\ DistIdle
    /\ RestIdle

NextManager ==
    \/ \E exp \in ExpInputs : LocalUpdate(exp)
    \/ \E cv \in {None} \cup {<<v>> : v \in -1..HistoryVersion(update_history)} :
          LocalGetState(cv)
    \/ \E rollout_info \in RolloutInputs : SimpleUpdate(rollout_info)
    \/ SimpleGetState

SpecManager == InitManager /\ [][NextManager]_vars

\* -------------- the managers that keep an update history (policy/), together
InitHistory == InitManager \/ InitTrainers

NextHistory == NextManager \/ NextTrainers

SpecHistory == InitHistory /\ [][NextHistory]_vars

\* ------------ SimplePolicyManager in data-parallel mode (learning/)
\* the members of a list
Members(list) == {list[k] : k \in 1..Len(list)}

\* the load by policy the allocator works from: none yet, or one count per
\* policy name with a positive total
DpLoads == {<<>>} \cup {l \in [1..Len(PolicyOrder) -> 0..MaxLoad] : SumSeq(l) > 0}

\* "self._trainer_allocator.allocate(policy_name=self._policy_names, ...)": the
\* policy -> workers half of what the allocator returns for a pool of n
\* workers, cold without load history and warm with it
TrainerAllocate(n, loads) ==
    LET names == [i \in 1..Len(PolicyOrder) |-> 0]
        pairs == IF loads = <<>> THEN ColdPairs(names, n, 1)
                 ELSE WarmPairs(FinalQuota(loads, n), n, 1, 0)
        idx(name) == CHOOSE i \in 1..Len(PolicyOrder) : PolicyOrder[i] = name
    IN  [name \in Policies |-> MapsOf(pairs).policy2trainer[idx(name)]]

\* the worker -> policies half: self._worker2policies
Worker2Policies(p2w) ==
    [w \in {v \in PoolIds : \E name \in DOMAIN p2w : v \in Members(p2w[name])} |->
        {name \in DOMAIN p2w : w \in Members(p2w[name])}]

\* update(): the policies whose first record is a Trajectory, each handed
\* "self._policy2workers[policy_name]" by distributed_learn
HandedWorkers(rollout_info, p2w) ==
    [name \in {x \in DOMAIN rollout_info : rollout_info[x] = "Trajectory"} |->
        Members(p2w[name])]

\* SimplePolicyManager.update with data_parallel: re-allocate, then learn
DpUpdate(rollout_info, loads) ==
    /\ mgr = "Simple"
    /\ num_grad_workers >= 1
    /\ calls < MaxCalls
    /\ policy2workers' = TrainerAllocate(num_grad_workers, loads)
    /\ handed' = HandedWorkers(rollout_info, policy2workers')
    /\ SimpleUpdateCall(rollout_info)
    /\ UNCHANGED <<num_grad_workers, worker_init>>
    /\ UNCHANGED <<mgr, update_option, update_history, new_exp_counter, memory_size>>
    /\ UNCHANGED <<serverVars, mpVars, distVars, trVars, allocVars>>

\* get_state() of the same manager
DpGetState ==
    /\ num_grad_workers >= 1
    /\ SimpleGetState

\* the state right after __init__ with data_parallel=True: the first allocation
\* is made without load history and every worker of self._worker2policies is
\* sent INIT_POLICIES with its policy names
InitDataParallel ==
    /\ ManagerIdle("Simple")
    /\ ServerIdle
    /\ MPIdle
    /\ DistIdle
    /\ TrIdle
    /\ AllocIdle
    /\ num_grad_workers \in 1..MaxGradPool
    /\ policy2workers = TrainerAllocate(num_grad_workers, <<>>)
    /\ worker_init = [w \in PoolIds |->
          IF w \in DOMAIN Worker2Policies(policy2workers)
          THEN Worker2Policies(policy2workers)[w] ELSE {}]
    /\ handed = EmptyMap

NextDataParallel ==
    \/ \E rollout_info \in RolloutInputs : \E loads \in DpLoads : DpUpdate(rollout_info, loads)
    \/ DpGetState

SpecDataParallel == InitDataParallel /\ [][NextDataParallel]_vars

\* ===================================================== properties
\* ---- in-process managers (SpecManager)

\* C1: the version starts at 0 and never decreases, and every update() call
\* that updates at least one policy raises it by exactly 1, however many
\* policies that call updated.
C1_VersionCountsUpdates ==
    /\ CurrentVersion = 0
    /\ [][/\ CurrentVersion' >= CurrentVersion
          /\ (calls' # calls /\ last'.updated # {})
                => CurrentVersion' = CurrentVersion + 1]_vars

\* two update() calls, the second updating two policies at once, gave version 2
C1_Witness ==
    /\ mgr = "Local" /\ calls = 2 /\ CurrentVersion = 2
    /\ Cardinality(last.updated) = 2

\* the policies named by an update-history entry with index in (v, current]
UpdatedSince(v) ==
    {name \in Policies :
        \E i \in (v + 1)..HistoryVersion(update_history) : name \in update_history[i + 1]}

\* C4: for -1 <= v <= current, the key set of get_state(v) is exactly the
\* union of the update-history entries with index in (v, current].
C4_GetStateKeys ==
    (mgr = "Local" /\ got.called /\ got.arg # None)
        => DOMAIN got.ret = UpdatedSince(got.arg[1])

\* after two updates, get_state(0) returned one policy and left the other out
C4_Witness ==
    /\ mgr = "Local" /\ got.called /\ got.arg = <<0>>
    /\ HistoryVersion(update_history) = 2
    /\ DOMAIN got.ret = {PolicyOrder[1]}

\* the version a get_state call reads from: the one given, else current - 1
SinceVersion(arg) == IF arg = None THEN CurrentVersion - 1 ELSE arg[1]

C6_EmptyUpdateNoEffect ==
    [][(calls' # calls /\ last'.named = {})
          => UNCHANGED <<version, update_history, policy_state, memory_size,
                         new_exp_counter>>]_vars

\* ---- serving loop (SpecServer)

\* C2: a SAMPLE_DONE tagged current - max_lag (or newer) makes the loop call
\* update() exactly once; one tagged current - max_lag - 1 or older makes it
\* call update() not at all.
C2_StalenessBoundary ==
    event.tag = "SAMPLE_DONE" =>
        /\ (event.before - event.tagged <= max_lag)
              => (event.updates = 1 /\ version = event.before + 1)
        /\ (event.before - event.tagged >= max_lag + 1)
              => (event.updates = 0 /\ version = event.before)

\* with max_lag = 1, a message tagged one version behind was applied
C2_Witness ==
    /\ max_lag = 1 /\ event.tag = "SAMPLE_DONE"
    /\ event.before - event.tagged = 1 /\ event.updates = 1

\* C3: handling a stale SAMPLE_DONE leaves version and policy states as they
\* were, sends exactly one reply, to the sender, with the current state and
\* version, and the loop keeps serving.
C3_StaleDropped ==
    (event.tag = "SAMPLE_DONE" /\ event.before - event.tagged > max_lag) =>
        /\ version = event.before
        /\ policy_state = event.stateBefore
        /\ event.replies = <<PolicyStateReply(event.from, policy_state, version)>>
        /\ serverPc = "serving"

\* with max_lag = 1, a message tagged two versions behind was dropped
C3_Witness ==
    /\ max_lag = 1 /\ event.tag = "SAMPLE_DONE"
    /\ event.before - event.tagged = 2 /\ event.updates = 0
    /\ Len(event.replies) = 1

\* the actors whose DONE the loop has handled
DonesHandled == {a \in Actors : finished[a] /\ inbox[a].tag # "DONE"}

\* C7: with N >= 1 actors the loop is still serving after each of the first
\* N - 1 DONE messages and has returned once the N-th is handled; after that
\* it stays returned and handles nothing more.
C7_ReturnsOnLastDone ==
    /\ [](serverPc = "returned" <=> Cardinality(DonesHandled) = num_actors)
    /\ [][serverPc = "returned"
            => /\ serverPc' = "returned"
               /\ UNCHANGED <<event, version, policy_state, held, num_active_actors>>
               /\ \A a \in ActorIds : inbox[a].tag # "none" => inbox'[a] = inbox[a]]_vars

\* two actors: one DONE was handled while serving, the second made the loop return
C7_Witness ==
    /\ num_actors = 2 /\ serverPc = "returned" /\ Cardinality(DonesHandled) = 2

\* the hosts owning at least one of the named policies, by the round-robin rule
Owners(named) ==
    {h \in HostIds : \E i \in 1..Len(HostedOrder) :
        HostedOrder[i] \in named /\ (i - 1) % num_hosts = h}

NamedInCall == DOMAIN distRollout

\* C8 (SpecDist): while one update() of the multi-node manager is gathering, the
\* hosts it sent LEARN to are exactly the owners of the policies named in the
\* call, no other host holds a LEARN, and the gather is still open only because
\* fewer LEARN_DONE replies have been taken than there are destination hosts.
C8_ContactsOwnersOnly ==
    distPc = "gather" =>
        /\ DOMAIN msg_dict = Owners(NamedInCall)
        /\ \A h \in HostIds \ Owners(NamedInCall) :
              \A i \in 1..Len(netToHost[h]) : netToHost[h][i].tag # "LEARN"
        /\ {arrivals[i] : i \in 1..Len(arrivals)} \subseteq Owners(NamedInCall)
        /\ dones < Cardinality(Owners(NamedInCall))

\* C9 (SpecMP): while update() of the multi-process manager, called with at
\* least one policy, is blocked in a receive, the host it is waiting for is one
\* it sent a learn request to in this call.
C9_AwaitsOnlyContacted ==
    (mpPc = "recv" /\ DOMAIN mpRollout # {}) =>
        Awaited(mpRollout)[mpIdx] \in DOMAIN mpRollout

\* the state of a policy on the host that owns it
OwnerState(name) == policy_dict[policy2host[name]][name]

\* C10 (SpecDist): whatever the order in which the LEARN_DONE replies of one
\* multi-node update() arrive, the call has not finished while a destination
\* host's reply is outstanding, and when it has finished every destination host
\* has replied exactly once, the cache holds the owners' states of all policies
\* and the version is one more per finished call.
C10_GatherOrderIndependent ==
    /\ (distPc = "gather" /\ Len(arrivals) > 0) =>
          {arrivals[i] : i \in 1..Len(arrivals)} # DOMAIN msg_dict
    /\ (distPc \in {"idle", "closed"}) =>
          /\ {arrivals[i] : i \in 1..Len(arrivals)} = DOMAIN msg_dict
          /\ Len(arrivals) = Cardinality(DOMAIN msg_dict)
          /\ DOMAIN state_cache = Hosted
          /\ \A name \in Hosted : state_cache[name] = OwnerState(name)
          /\ version = calls

\* a finished update whose two replies were taken in the opposite order of the
\* host ids, the second call of the run, with a policy left out of it
C10_Witness ==
    /\ distPc = "idle" /\ calls = 2 /\ version = 2
    /\ arrivals = <<1, 0>>
    /\ NamedInCall # Hosted
    /\ \E name \in Hosted : state_cache[name] = 2

\* ---- multi-node manager (SpecDist), continued

\* C12 (SpecDist): the i-th policy in construction order is owned by host
\* i mod num_hosts (counting from 0), each policy by that one host only, and no
\* update() or exit() ever changes the assignment.
C12_AssignmentFixed ==
    /\ [](/\ DOMAIN policy2host = Hosted
          /\ \A i \in 1..Len(HostedOrder) :
                policy2host[HostedOrder[i]] = (i - 1) % num_hosts)
    /\ [][policy2host' = policy2host /\ num_hosts' = num_hosts]_vars

\* two hosts, the third policy wraps round to host 0, after an update and exit()
C12_Witness ==
    /\ distPc = "closed" /\ calls >= 1 /\ num_hosts = 2
    /\ policy2host["p3"] = 0 /\ policy2host["p2"] = 1

\* the LEARN messages host h has been sent and has not yet received
PendingLearns(h) == {i \in 1..Len(netToHost[h]) : netToHost[h][i].tag = "LEARN"}

\* what this cycle has so far made of a LEARN to host h: still in its queue,
\* answered and in flight, answered and taken by the manager, or failed on
LearnsOfCycle(h) ==
    Cardinality(PendingLearns(h))
    + Cardinality({msg \in netToMgr : msg.tag = "LEARN_DONE" /\ msg.from = h})
    + Cardinality({i \in 1..Len(arrivals) : arrivals[i] = h})
    + (IF nodePc[h] = "crashed" THEN 1 ELSE 0)

\* the part of this call's rollout_info that belongs to the policies of host h
OwnShare(h) ==
    [name \in {x \in DOMAIN distRollout : Owners({x}) = {h}} |-> distRollout[name]]

\* C13 (SpecDist): in one multi-node update every host that owns a named policy
\* is sent exactly one LEARN, no other host is sent any, and the rollout
\* information in a LEARN is exactly this call's entries of the policies the
\* receiving host owns.
C13_PayloadPerOwner ==
    (distPc \in {"scatter", "gather"}) =>
        \A h \in HostIds :
            /\ LearnsOfCycle(h) =
                 (IF h \in Owners(NamedInCall) /\ h \notin distToSend THEN 1 ELSE 0)
            /\ \A i \in PendingLearns(h) : netToHost[h][i].rollout_info = OwnShare(h)

\* two hosts, all three policies named: host 0 holds the LEARN for p1 and p3,
\* host 1 the one for p2
C13_Witness ==
    /\ distPc = "gather" /\ num_hosts = 2 /\ DOMAIN distRollout = Hosted
    /\ PendingLearns(0) # {} /\ PendingLearns(1) # {}
    /\ DOMAIN Head(netToHost[0]).rollout_info = {"p1", "p3"}
    /\ DOMAIN Head(netToHost[1]).rollout_info = {"p2"}

\* ---- fan-out managers (SpecFanOut, SpecTrainers)

\* requests of the cycle a multi-process host still has to receive
QueuedLearns(name) ==
    Cardinality({i \in 1..Len(toHost[name]) : toHost[name][i].type = "learn"})

QueuedTrains(t) ==
    Cardinality({i \in 1..Len(trIn[t]) : trIn[t][i].type \in {"train", "LEARN"}})

\* C11 (SpecFanOut): once update() of a multi-process or multi-node manager is
\* awaiting replies, no request of that cycle is left unsent: every destination
\* whose reply has not been taken yet holds its request, has answered it, or
\* has failed on it.
C11_FireThenWait ==
    /\ mpPc = "recv" =>
          /\ mpToSend = {}
          /\ \A i \in mpIdx..Len(PolicyOrder) :
                PolicyOrder[i] \in DOMAIN mpRollout =>
                    QueuedLearns(PolicyOrder[i]) + Len(toMgr[PolicyOrder[i]])
                    + (IF hostPc[PolicyOrder[i]] = "crashed" THEN 1 ELSE 0) = 1
    /\ distPc = "gather" =>
          /\ distToSend = {}
          /\ \A h \in DOMAIN msg_dict : LearnsOfCycle(h) = 1
    /\ trPc = "recv" =>
          \A k \in trIdx..Len(ManagerEnds(num_trainers)) :
              QueuedTrains(ManagerEnds(num_trainers)[k])
              + Len(trOut[ManagerEnds(num_trainers)[k]]) = 1
    /\ trPc = "gather" =>
          /\ trToSend = {}
          /\ Cardinality({t \in Dests(exp_to_send) :
                             QueuedTrains(t) + Len(trOut[t]) = 1})
             + trDones = Cardinality(Dests(exp_to_send))

\* a multi-node gather that has taken one of two replies while the other
\* host still holds its LEARN
C11_Witness ==
    /\ distPc = "gather" /\ Len(arrivals) = 1 /\ Cardinality(DOMAIN msg_dict) = 2
    /\ \E h \in DOMAIN msg_dict : PendingLearns(h) # {}

\* C14 (SpecTrainers): in the multi-process topology every update() with a due
\* policy dispatches without error, also when only some of a trainer's policies
\* are due, and a trainer is only ever sent experience of policies it owns.
C14_DispatchPerOwner ==
    mgr = "TrainerProcesses" =>
        /\ trPc # "error" \/ trExits > 0
        /\ \A t \in TrainerIds : \A i \in 1..Len(trIn[t]) :
              trIn[t][i].type = "train" =>
                  DOMAIN trIn[t][i].experiences \subseteq
                      {name \in Policies : Policy2Trainer(num_trainers)[name] = t}

\* ---- exit()

\* C15 (SpecDist): once exit() of the multi-node manager has been called, every
\* policy host and every gradient worker in use has stopped or holds the EXIT
\* that will stop it.
C15_ExitSignalsEveryone ==
    distPc = "closed" =>
        /\ \A h \in Nodes :
              \/ nodePc[h] = "stopped"
              \/ \E i \in 1..Len(netToHost[h]) : netToHost[h][i].tag = "EXIT"
        /\ \A w \in GradWorkerIds :
              \/ gwPc[w] \in {"off", "stopped"}
              \/ \E i \in 1..Len(gwIn[w]) : gwIn[w][i].tag = "EXIT"

\* C16 (SpecMP): a second exit() of the multi-process manager raises nothing
\* and changes neither the manager nor any pipe nor any host.
C16_ExitIdempotent ==
    [][(exits' = exits + 1 /\ exits >= 1) =>
          /\ mpPc' = mpPc
          /\ UNCHANGED <<toHost, toMgr, hostPc, hostPolicy, state_cache, version>>]_vars

\* ---- serving loop (SpecServer), continued

\* the actors that hold a policy state and are collecting experience with it
Collecting == {a \in Actors : held[a] >= 0 /\ ~finished[a] /\ inbox[a].tag = "none"}

\* C17 (SpecServer), as stated: every actor that is collecting experience holds
\* a version at most max_lag behind the manager's current version.
C17_ActorsWithinLag ==
    \A a \in Collecting : version - held[a] <= max_lag

\* C17 (SpecServer), amended: every roll-out the loop applies was collected
\* against a version at most max_lag behind the version current when it is
\* handled, and every reply carries the version current after the handling; an
\* actor may meanwhile hold an older version, and its roll-out is then dropped.
C17_AppliedWithinLag ==
    /\ (event.tag = "SAMPLE_DONE" /\ event.updates = 1) =>
          event.before - event.tagged <= max_lag
    /\ (event.tag \in {"SAMPLE_DONE", "GET_INITIAL_POLICY_STATE"}) =>
          event.replies[1].version = version
    /\ \A a \in Actors : held[a] <= version

\* a roll-out was just applied while another actor is collecting with a version
\* more than max_lag behind
C17_Witness ==
    /\ event.tag = "SAMPLE_DONE" /\ event.updates = 1
    /\ \E a \in Collecting : a # event.from /\ version - held[a] > max_lag

\* ---- allocator (SpecAlloc)
AllocLoads == allocArgs.num_experiences_by_policy
AllocSlots == 0..(allocArgs.num_trainers - 1)
Returned == allocation.made /\ ~allocation.raised

\* how often slot t occurs in the slot lists of all policies together
Occurrences(t) ==
    LET p2t == allocation.maps.policy2trainer
    IN  SumSeq([i \in 1..Len(AllocLoads) |->
            IF i \in DOMAIN p2t
            THEN Cardinality({k \in 1..Len(p2t[i]) : p2t[i][k] = t}) ELSE 0])

\* C18 (SpecAlloc): with no load history the allocator gives policy i (from 0)
\* the single slot i mod num_slots when there are at least as many policies as
\* slots, and the slots i, i + num_policies, ... when there are fewer, so that
\* every slot has a policy.
C18_ColdStartAssignment ==
    (allocation.made /\ AllocLoads = <<>>) =>
        /\ ~allocation.raised
        /\ \A i \in 1..allocArgs.num_policies :
              /\ i \in DOMAIN allocation.maps.policy2trainer
              /\ allocation.maps.policy2trainer[i] =
                    (IF allocArgs.num_policies >= allocArgs.num_trainers
                     THEN <<(i - 1) % allocArgs.num_trainers>>
                     ELSE Stride(allocArgs.num_trainers, i - 1, allocArgs.num_policies))
        /\ allocArgs.num_policies < allocArgs.num_trainers =>
              DOMAIN allocation.maps.trainer2policies = AllocSlots

\* C19 (SpecAlloc): a warm allocation of at most num_slots policies, all with
\* nonzero load, has every slot as a key of the slot map and every slot exactly
\* once in the policies' slot lists taken together.
C19_EverySlotOnce ==
    (/\ allocation.made
     /\ AllocLoads # <<>>
     /\ Len(AllocLoads) <= allocArgs.num_trainers
     /\ \A i \in 1..Len(AllocLoads) : AllocLoads[i] > 0) =>
        /\ ~allocation.raised
        /\ DOMAIN allocation.maps.trainer2policies = AllocSlots
        /\ \A t \in AllocSlots : Occurrences(t) = 1

\* the lengths of the policies' slot lists: their final quotas
QuotaGiven == [i \in 1..Len(AllocLoads) |-> Len(allocation.maps.policy2trainer[i])]

\* C20 (SpecAlloc): when the final quotas of a warm allocation add up to
\* num_slots, the policies get consecutive blocks of slots, each starting where
\* the previous one ended (modulo num_slots) and as long as the policy's quota,
\* and every slot belongs to exactly one policy.
C20_ConsecutiveBlocks ==
    (/\ Returned
     /\ AllocLoads # <<>>
     /\ SumSeq(FinalQuota(AllocLoads, allocArgs.num_trainers)) = allocArgs.num_trainers) =>
        /\ DOMAIN allocation.maps.policy2trainer = 1..Len(AllocLoads)
        /\ \A i \in 1..Len(AllocLoads) :
              /\ QuotaGiven[i] = FinalQuota(AllocLoads, allocArgs.num_trainers)[i]
              /\ \A k \in 1..QuotaGiven[i] :
                    allocation.maps.policy2trainer[i][k] =
                        (SumSeq(SubSeq(QuotaGiven, 1, i - 1)) + k - 1) % allocArgs.num_trainers
        /\ \A t \in AllocSlots :
              /\ Occurrences(t) = 1
              /\ t \in DOMAIN allocation.maps.trainer2policies
              /\ Len(allocation.maps.trainer2policies[t]) = 1

\* loads 3, 1, 1 on five slots: quotas 3, 1, 1 and blocks 0-2, 3, 4
C20_Witness ==
    /\ Returned
    /\ allocArgs.num_trainers = 5
    /\ AllocLoads = <<3, 1, 1>>
    /\ allocation.maps.policy2trainer = <<<<0, 1, 2>>, <<3>>, <<4>>>>

Warm == Returned /\ AllocLoads # <<>>
QuotaFirst == InitialQuota(AllocLoads, allocArgs.num_trainers)
TotalLoad == SumSeq(AllocLoads)
Distance(a, b) == IF a >= b THEN a - b ELSE b - a

\* C21 (SpecAlloc): in a warm allocation the initial quota of a policy is the
\* integer nearest to load / (total_load / num_slots), raised to 1 when that is
\* smaller, so every policy with recorded load is given at least one slot.
C21_QuotaAtLeastOne ==
    Warm =>
        \A i \in 1..Len(AllocLoads) :
            /\ QuotaFirst[i] >= 1
            /\ \/ 2 * Distance(QuotaFirst[i] * TotalLoad,
                               AllocLoads[i] * allocArgs.num_trainers) <= TotalLoad
               \/ /\ QuotaFirst[i] = 1
                  /\ 2 * AllocLoads[i] * allocArgs.num_trainers < TotalLoad
            /\ i \in DOMAIN allocation.maps.policy2trainer
            /\ Len(allocation.maps.policy2trainer[i]) >= QuotaFirst[i]

\* loads 3 and 0 on one slot: the second policy is far below the average and still gets a slot
C21_Witness ==
    /\ Warm
    /\ allocArgs.num_trainers = 1
    /\ AllocLoads = <<3, 0>>
    /\ allocation.maps.policy2trainer = <<<<0>>, <<0>>>>

\* C22 (SpecAlloc): in a warm allocation, initial quotas that add up to less
\* than num_slots have the whole deficit added to one policy of highest quota
\* and no other quota changed; initial quotas that add up to more are all left
\* as they are; so the final quotas add up to at least num_slots.
C22_DeficitToBusiest ==
    Warm =>
        /\ DOMAIN allocation.maps.policy2trainer = 1..Len(AllocLoads)
        /\ SumSeq(QuotaFirst) < allocArgs.num_trainers =>
              \E b \in 1..Len(AllocLoads) :
                  /\ \A j \in 1..Len(AllocLoads) : QuotaFirst[j] <= QuotaFirst[b]
                  /\ QuotaGiven[b] = QuotaFirst[b] + allocArgs.num_trainers - SumSeq(QuotaFirst)
                  /\ \A j \in 1..Len(AllocLoads) \ {b} : QuotaGiven[j] = QuotaFirst[j]
        /\ SumSeq(QuotaFirst) >= allocArgs.num_trainers => QuotaGiven = QuotaFirst
        /\ SumSeq(QuotaGiven) >= allocArgs.num_trainers

\* loads 1 and 1 on five slots: quotas 2 and 2, the spare slot goes to the first policy
C22_Witness ==
    /\ Warm
    /\ allocArgs.num_trainers = 5
    /\ AllocLoads = <<1, 1>>
    /\ QuotaFirst = <<2, 2>>
    /\ allocation.maps.policy2trainer = <<<<0, 1, 2>>, <<3, 4>>>>

\* C23 (SpecAlloc): every allocation returned is a pair of mutually inverse
\* maps, gives every managed policy at least one slot, and the slots' policy
\* sets together are all managed policies, those without experience included.
C23_AllocationCoversPolicies ==
    Returned =>
        LET p2t == allocation.maps.policy2trainer
            t2p == allocation.maps.trainer2policies
        IN  /\ \A i \in 1..allocArgs.num_policies, t \in AllocSlots :
                  (i \in DOMAIN p2t /\ t \in Members(p2t[i]))
                      <=> (t \in DOMAIN t2p /\ i \in Members(t2p[t]))
            /\ \A i \in 1..allocArgs.num_policies : i \in DOMAIN p2t /\ p2t[i] # <<>>
            /\ UNION {Members(t2p[t]) : t \in DOMAIN t2p} = 1..allocArgs.num_policies

\* ---- unexpected input

\* C24 (SpecServer): a message with a tag the receiving loop does not handle is
\* fatal to it; for the serving loop: once it has taken such a message it is
\* no longer serving.
C24_UnexpectedTagFatal ==
    event.tag \notin {"none", "GET_INITIAL_POLICY_STATE", "SAMPLE_DONE", "DONE"}
        => serverPc # "serving"

\* C25 (SpecManager): rollout information whose first record is neither a
\* Trajectory nor a LossInfo is fatal to the learning step; for the in-process
\* manager: an update() call that named a policy it could not learn from has
\* not raised the version.
C25_UnknownRecordFatal ==
    (mgr = "Simple" /\ last.op = "update" /\ last.updated # last.named)
        => version = last.prev

\* C27 (SpecServer): handling GET_INITIAL_POLICY_STATE sends exactly one reply,
\* to the sender, carrying the current policy states and version, and leaves
\* the version, the policy states and the live-actor counter as they were.
C27_GetInitialReadOnly ==
    [][\A a \in ActorIds :
          (serverPc = "serving" /\ inbox[a].tag = "GET_INITIAL_POLICY_STATE"
                                /\ inbox'[a].tag = "none")
              => /\ event'.replies = <<[to |-> a, state |-> policy_state, version |-> version]>>
                 /\ UNCHANGED <<version, policy_state, num_active_actors, serverPc>>]_vars

\* a second actor asked for the initial state after one update and one DONE
C27_Witness ==
    /\ event.tag = "GET_INITIAL_POLICY_STATE"
    /\ version = 1
    /\ event.replies = <<[to |-> event.from, state |-> policy_state, version |-> 1]>>
    /\ num_actors = 2 /\ num_active_actors = 1

\* ---- multi-process policy host (SpecMP)
\* host name takes the oldest message of its pipe in this step
HostTakes(name) ==
    /\ hostPc[name] = "loop"
    /\ toHost[name] # <<>>
    /\ toHost'[name] = Tail(toHost[name])
Recognised(msg) == msg.rollout_info \in {"Trajectory", "LossInfo"}
HostSends(name, msgs) == toMgr'[name] = toMgr[name] \o msgs

\* C28 as stated (SpecMP): a host sends one init message with its initial state
\* at start-up, then one learn_done with its state after the step for every
\* learn message it receives, in the order received, and after quit sends
\* nothing more and stops.
C28_HostProtocol ==
    [][\A name \in Policies :
          /\ (hostPc[name] = "start" /\ hostPc'[name] # "start")
                => /\ HostSends(name, <<[type |-> "init", policy_state |-> hostPolicy[name]]>>)
                   /\ hostPc'[name] = "loop"
          /\ (HostTakes(name) /\ Head(toHost[name]).type = "learn")
                => /\ HostSends(name, <<[type |-> "learn_done",
                                         policy_state |-> hostPolicy'[name]]>>)
                   /\ hostPolicy'[name] = hostPolicy[name] + 1
                   /\ hostPc'[name] = "loop"
          /\ (HostTakes(name) /\ Head(toHost[name]).type = "quit")
                => /\ HostSends(name, <<>>)
                   /\ hostPc'[name] = "stopped"
          /\ hostPc[name] = "stopped"
                => /\ hostPc'[name] = "stopped"
                   /\ Len(toMgr'[name]) <= Len(toMgr[name])
                   /\ Len(toHost'[name]) >= Len(toHost[name])]_vars

\* C28 amended (SpecMP): the same, for learn messages whose first record is a
\* Trajectory or a LossInfo; a learn message with any other record ends the
\* host without a reply, and a host that has ended sends and reads nothing.
C28_HostProtocolTyped ==
    [][\A name \in Policies :
          /\ (hostPc[name] = "start" /\ hostPc'[name] # "start")
                => /\ HostSends(name, <<[type |-> "init", policy_state |-> hostPolicy[name]]>>)
                   /\ hostPc'[name] = "loop"
          /\ (HostTakes(name) /\ Head(toHost[name]).type = "learn"
                              /\ Recognised(Head(toHost[name])))
                => /\ HostSends(name, <<[type |-> "learn_done",
                                         policy_state |-> hostPolicy'[name]]>>)
                   /\ hostPolicy'[name] = hostPolicy[name] + 1
                   /\ hostPc'[name] = "loop"
          /\ (HostTakes(name) /\ Head(toHost[name]).type = "learn"
                              /\ ~Recognised(Head(toHost[name])))
                => /\ HostSends(name, <<>>)
                   /\ hostPolicy'[name] = hostPolicy[name]
                   /\ hostPc'[name] = "crashed"
          /\ (HostTakes(name) /\ Head(toHost[name]).type = "quit")
                => /\ HostSends(name, <<>>)
                   /\ hostPc'[name] = "stopped"
          /\ hostPc[name] \in {"stopped", "crashed"}
                => /\ hostPc'[name] = hostPc[name]
                   /\ Len(toMgr'[name]) <= Len(toMgr[name])
                   /\ Len(toHost'[name]) >= Len(toHost[name])
          /\ Len(toMgr'[name]) > Len(toMgr[name])
                => \/ hostPc[name] = "start"
                   \/ HostTakes(name) /\ Head(toHost[name]).type = "learn"]_vars

\* a host that learnt twice, answered twice and then stopped on quit
C28_Witness ==
    /\ hostPc[PolicyOrder[1]] = "stopped"
    /\ hostPolicy[PolicyOrder[1]] = 2
    /\ state_cache[PolicyOrder[1]] = 2
    /\ toMgr[PolicyOrder[1]] = <<>>

\* ---- history-based manager (SpecManager)

\* C29 (SpecManager): get_state() without a version reads from current - 1 and
\* so returns exactly the policies of the most recent update-history entry, on
\* a manager at version 0 every managed policy; and no get_state call changes
\* the version or the history.
C29_DefaultGetState ==
    /\ []((mgr = "Local" /\ got.called /\ got.arg = None) =>
            /\ DOMAIN got.ret = update_history[Len(update_history)]
            /\ \A name \in DOMAIN got.ret : got.ret[name] = policy_state[name]
            /\ HistoryVersion(update_history) = 0 => DOMAIN got.ret = Policies)
    /\ [][(mgr = "Local" /\ got'.called /\ got' # got)
            => UNCHANGED <<update_history, version, policy_state, calls>>]_vars

\* after updates of p2 and then of p1, get_state() returned p1 alone
C29_Witness ==
    /\ mgr = "Local" /\ got.called /\ got.arg = None
    /\ update_history = <<Policies, {PolicyOrder[2]}, {PolicyOrder[1]}>>
    /\ DOMAIN got.ret = {PolicyOrder[1]}

\* C30 (SpecManager): an update() call of the history-based manager in which
\* no policy meets both its trigger and its warm-up size stores the experience
\* and counts it, and leaves the version, the update history and the policy
\* states as they were.
C30_NoDuePolicyNoVersion ==
    [][(mgr = "Local" /\ calls' = calls + 1 /\ last'.updated = {}) =>
          /\ update_history' = update_history
          /\ CurrentVersion' = CurrentVersion
          /\ policy_state' = policy_state
          /\ \A name \in Policies :
                /\ memory_size'[name] - memory_size[name]
                      = new_exp_counter'[name] - new_exp_counter[name]
                /\ memory_size'[name] - memory_size[name]
                      \in (IF name \in last'.named THEN ExpSizes ELSE {0})]_vars

\* one experience for a policy with trigger 2 was stored and counted at version 0
C30_Witness ==
    /\ mgr = "Local" /\ calls = 1 /\ last.op = "update"
    /\ last.named = {PolicyOrder[1]} /\ last.updated = {}
    /\ new_exp_counter[PolicyOrder[1]] = 1 /\ memory_size[PolicyOrder[1]] = 1
    /\ update_history = <<Policies>>

\* ---- gradient worker (SpecGradWorker)
\* worker w takes the oldest message sent to it in this step
WorkerTakes(w) ==
    /\ gwPc[w] = "loop"
    /\ gwIn[w] # <<>>
    /\ gwIn'[w] = Tail(gwIn[w])
\* the last reply sent, when this step sent exactly one
OneReply == IF Len(gwReplies') = Len(gwReplies) + 1 /\ SubSeq(gwReplies', 1, Len(gwReplies)) = gwReplies
            THEN <<gwReplies'[Len(gwReplies')]>> ELSE <<>>

C31_CacheFollowsReplies ==
    [][/\ distPc = "gather" =>
             /\ DOMAIN state_cache' = DOMAIN state_cache
             /\ \A name \in DOMAIN state_cache :
                   state_cache'[name] # state_cache[name] =>
                       /\ name \in DOMAIN distRollout
                       /\ \E msg \in netToMgr \ netToMgr' :
                             /\ msg.tag = "LEARN_DONE"
                             /\ msg.from = policy2host[name]
                             /\ name \in DOMAIN msg.policy_state
                             /\ msg.policy_state[name] = state_cache'[name]
             /\ distPc' = "idle" =>
                   \A name \in DOMAIN distRollout : state_cache'[name] = OwnerState(name)
       /\ mpPc = "recv" =>
             /\ DOMAIN state_cache' = DOMAIN state_cache
             /\ \A name \in DOMAIN state_cache :
                   state_cache'[name] # state_cache[name] =>
                       /\ name \in DOMAIN mpRollout
                       /\ toMgr[name] # <<>>
                       /\ toMgr'[name] = Tail(toMgr[name])
                       /\ Head(toMgr[name]).type = "learn_done"
                       /\ Head(toMgr[name]).policy_state = state_cache'[name]
             /\ mpPc' = "idle" =>
                   \A name \in DOMAIN mpRollout : state_cache'[name] = hostPolicy[name]]_vars

\* a multi-node update() that named p1 alone has returned: p1 is cached at its
\* new state, p2 and p3 at their initial one
C31_Witness ==
    /\ distPc = "idle" /\ version = 1 /\ calls = 1
    /\ DOMAIN distRollout = {"p1"}
    /\ state_cache = [name \in Hosted |-> IF name = "p1" THEN 1 ELSE 0]
    /\ OwnerState("p1") = 1

\* ---- actors that sampled against the same version (SpecServer)
\* actor a's SAMPLE_DONE is taken in this step
SampleTaken(a) ==
    /\ serverPc = "serving"
    /\ inbox[a].tag = "SAMPLE_DONE"
    /\ inbox'[a].tag = "none"

\* C32 (SpecServer): with max_lag = 0 and several SAMPLE_DONE messages tagged
\* with the current version waiting, the one handled first is applied and
\* raises the version, which makes every other one stale; a stale one is
\* discarded when its turn comes, and its sender is still replied to with the
\* newer state and version.
C32_FirstSampleWins ==
    /\ [][max_lag = 0 =>
            \A a \in ActorIds :
                (SampleTaken(a) /\ inbox[a].version = version) =>
                    /\ version' = version + 1
                    /\ event'.updates = 1
                    /\ \A b \in ActorIds \ {a} :
                          (inbox[b].tag = "SAMPLE_DONE" /\ inbox[b].version = version) =>
                              /\ inbox'[b] = inbox[b]
                              /\ version' - inbox'[b].version > max_lag]_vars
    /\ [][max_lag = 0 =>
            \A a \in ActorIds :
                (SampleTaken(a) /\ inbox[a].version < version) =>
                    /\ UNCHANGED <<version, policy_state, calls>>
                    /\ event'.updates = 0
                    /\ event'.replies = <<[to |-> a, state |-> policy_state,
                                           version |-> version]>>
                    /\ held'[a] = version
                    /\ held'[a] > inbox[a].version]_vars

\* two actors sampled against version 0; the first message was applied, the
\* second was discarded and answered with version 1
C32_Witness ==
    /\ num_actors = 2 /\ max_lag = 0 /\ samples = 2
    /\ event.tag = "SAMPLE_DONE" /\ event.tagged = 0 /\ event.before = 1
    /\ event.updates = 0 /\ version = 1 /\ calls = 1
    /\ \A a \in Actors : held[a] = 1

\* ---- termination of the multi-node manager (SpecDistFew, SpecDist)
\* nothing is on its way to the manager or to a host that is still running
NothingInFlight ==
    /\ netToMgr = {}
    /\ \A h \in HostIds : nodePc[h] = "loop" => netToHost[h] = <<>>

\* C33 (SpecDistFew): construction of the multi-node manager ends once
\* every host that was sent INIT_POLICIES has replied, also when there are
\* more hosts than policies: it is never left waiting with every reply taken.
C33_ConstructionEnds ==
    NothingInFlight => distPc # "init"

\* C34 (SpecDist): update() of the multi-node manager called with an empty
\* rollout_info sends nothing and returns without waiting for a message: it
\* is never in its gather loop.
C34_EmptyUpdateReturns ==
    (DOMAIN distRollout = {} /\ calls >= 1) => distPc # "gather"

\* ---- warm allocation: quotas against the number of slots (SpecAlloc)
NoRepeat(list) == Cardinality(Members(list)) = Len(list)

\* C39 (SpecAlloc): in a warm allocation with positive total load no policy's
\* final quota exceeds num_slots, so no policy is given the same slot twice and
\* no slot lists the same policy twice.
C39_QuotaWithinSlots ==
    (Warm /\ TotalLoad > 0) =>
        LET p2t == allocation.maps.policy2trainer
            t2p == allocation.maps.trainer2policies
        IN  /\ \A i \in 1..Len(AllocLoads) :
                  /\ QuotaGiven[i] <= allocArgs.num_trainers
                  /\ NoRepeat(p2t[i])
            /\ \A t \in DOMAIN t2p : NoRepeat(t2p[t])

\* one policy has nearly all the load and is given every slot once
C39_Witness ==
    /\ Warm
    /\ allocArgs.num_trainers = 2
    /\ AllocLoads = <<3, 1>>
    /\ allocation.maps.policy2trainer = <<<<0, 1>>, <<0>>>>
    /\ allocation.maps.trainer2policies = (0 :> <<1, 2>> @@ 1 :> <<1>>)

\* ---- in-process trigger-based manager: the update condition (SpecManager)
\* the counter and the memory of a policy allow an update
Ripe(counter, memory, name) ==
    /\ counter >= update_option[name].update_trigger
    /\ memory >= update_option[name].warmup

\* C37 (SpecManager): an update() call of the in-process trigger-based manager
\* updates a named policy exactly when, with the incoming experience stored, its
\* new-experience counter has reached its trigger and its memory its warm-up
\* size; an update resets the counter to 0, so after every call each named
\* policy has counter < trigger or memory size < warm-up.
C37_UpdatedIffDue ==
    /\ []((mgr = "Local" /\ last.op = "update") =>
            \A name \in last.named :
                ~Ripe(new_exp_counter[name], memory_size[name], name)
                \/ (name \in last.updated /\ new_exp_counter[name] = 0
                    /\ update_option[name].update_trigger >= 1))
    /\ [][(mgr = "Local" /\ calls' # calls) =>
            \A name \in last'.named :
                /\ name \in last'.updated
                      <=> policy_state'[name] = policy_state[name] + num_epochs
                /\ name \notin last'.updated =>
                      /\ policy_state'[name] = policy_state[name]
                      /\ new_exp_counter'[name] - new_exp_counter[name]
                            = memory_size'[name] - memory_size[name]
                      /\ ~Ripe(new_exp_counter'[name], memory_size'[name], name)
                /\ name \in last'.updated =>
                      /\ new_exp_counter'[name] = 0
                      /\ \E size \in ExpSizes :
                            /\ Ripe(new_exp_counter[name] + size,
                                    memory_size[name] + size, name)
                            /\ memory_size'[name] =
                                  IF update_option[name].reset_memory THEN 0
                                  ELSE memory_size[name] + size]_vars

\* one call named both policies: the first was due and updated, the second has
\* reached its trigger but not its warm-up size and was left alone
C37_Witness ==
    /\ mgr = "Local" /\ last.op = "update"
    /\ last.named = Policies
    /\ last.updated = {PolicyOrder[1]}
    /\ new_exp_counter[PolicyOrder[1]] = 0
    /\ policy_state = [name \in Policies |-> IF name = PolicyOrder[1] THEN 1 ELSE 0]
    /\ new_exp_counter[PolicyOrder[2]] >= update_option[PolicyOrder[2]].update_trigger
    /\ memory_size[PolicyOrder[2]] < update_option[PolicyOrder[2]].warmup

\* ---- history-based managers (SpecHistory)
HistoryBased == mgr \in {"Local", "TrainerProcesses", "TrainerNodes"}

\* C38 (SpecHistory): in every state of a history-based manager the version is
\* the length of the update history minus 1, entry 0 of the history is the set
\* of all managed policies and every later entry is a non-empty set of managed
\* policy names; a step leaves the history alone or appends one non-empty entry.
C38_HistoryWellFormed ==
    /\ [](HistoryBased =>
            /\ Len(update_history) >= 1
            /\ HistoryVersion(update_history) = Len(update_history) - 1
            /\ update_history[1] = Policies
            /\ \A k \in 2..Len(update_history) :
                  update_history[k] # {} /\ update_history[k] \subseteq Policies)
    /\ [][HistoryBased =>
            \/ update_history' = update_history
            \/ \E S \in (SUBSET Policies) \ {{}} :
                  update_history' = Append(update_history, S)]_vars

\* the multi-node manager after two update() calls: the first updated one
\* policy and was recorded, the second updated nothing and left no entry
C38_Witness ==
    /\ mgr = "TrainerNodes"
    /\ calls = 2
    /\ last.op = "update" /\ last.named # {} /\ last.updated = {}
    /\ update_history = <<Policies, {PolicyOrder[1]}>>

\* ---- trigger-based trainer managers: where the experience goes (SpecTrainers)
\* update() is not in progress: it has returned, raised, or was never called
UpdateOver == trPc \in {"idle", "error", "closed"}

\* C36 (SpecTrainers): experience passed to update() for a policy is either
\* held in that policy's cache or was dispatched to the policy's trainer
\* exactly once, so once an update() call is over what was passed in so far is
\* the cache plus what was dispatched; and a dispatch leaves the cache empty.
C36_CachedOrDispatchedOnce ==
    /\ [](UpdateOver =>
            \A name \in Policies :
                num_experiences_by_policy[name] = exp_cache[name] + dispatched[name])
    /\ [][\A name \in Policies :
            dispatched'[name] # dispatched[name] =>
                /\ exp_cache'[name] = 0
                /\ dispatched'[name] = dispatched[name] + exp_to_send[name]]_vars

\* the multi-node manager alone keeps the account
MultiNodeAccountKept ==
    (mgr = "TrainerNodes" /\ UpdateOver) =>
        \A name \in Policies :
            num_experiences_by_policy[name] = exp_cache[name] + dispatched[name]

\* ---- data-parallel mode (SpecDataParallel)

\* C35 (SpecDataParallel): whenever update() hands a policy the worker subset
\* of the allocation it has just recomputed, every worker of that subset was
\* earlier sent INIT_POLICIES naming that policy.
C35_HandedWorkersInitialised ==
    \A name \in DOMAIN handed :
        \A w \in handed[name] : name \in worker_init[w]

====
